---------------------------- MODULE Spec2Model ----------------------------
(***************************************************************************)
(* Model of the training orchestration of nntransfer / bias_transfer:      *)
(*   - the early-stopping controller (the generator early_stopping of      *)
(*     bias_transfer/trainer/utils.py) driven by the epoch loop of         *)
(*     bias_transfer/trainer/trainer.py;                                   *)
(*   - the data cyclers LongCycler and MTL_Cycler of                       *)
(*     bias_transfer/trainer/utils.py, and their traversals;               *)
(*   - Trainer.main_loop of nntransfer/trainer/trainer.py with the hooks   *)
(*     of the main-loop modules;                                           *)
(*   - the main-loop module LotteryTicketPruning of                        *)
(*     bias_transfer/trainer/main_loop_modules/lottery_ticket_pruning.py.  *)
(* Each component has a specification of its own, in which the variables   *)
(* of the other components keep their initial values.                      *)
(*                                                                         *)
(* Floats are modelled as tagged pairs so that NaN and the infinities keep *)
(* their IEEE-754 comparison behaviour; finite values are small integers.  *)
(* Model parameters live in a heap of storage cells, so that "copy" and    *)
(* "alias" are different things.                                           *)
(***************************************************************************)
EXTENDS Integers, Sequences, FiniteSets, TLC

(***************************************************************************)
(* Bounds of the model.                                                    *)
(***************************************************************************)
MaxIter == 3
MaxVal == 1
MaxPatience == 1
MaxDecaySteps == 2
MaxInterval == 2
MaxLen == 7
MaxSources == 3
MaxShortLen == 3
MaxShortSources == 2
MaxRatio == 2
MaxModules == 2
MaxBatches == 2
MaxStepCount == 2
MaxWeight == 1
MaxRoundLength == 1
MaxRounds == 2
MaxEpochs == 3

\* The values of percent_per_round looked at
Percents == {50, 100}

VARIABLES
    config,             \* the keyword arguments of early_stopping
    pc,                 \* position of the generator / of its caller
    epoch,
    repeat,             \* loop variable of "for repeat in range(lr_decay_steps)"
    patience_counter,
    i,                  \* iterations done of "for _ in range(interval)"
    current_objective,
    best_objective,
    best_state_dict,    \* heap address of the best snapshot
    heap,               \* storage cells holding parameter values
    training,           \* model.training
    training_status,    \* the mode captured when the generator starts
    exit_line,          \* source line of the return the generator took (0: none)
    retval,             \* the value the generator returned (StopIteration.value)
    fails,              \* history: evaluations in a row, in this stage, that did
                        \* not beat the best record by more than the tolerance
    loaders,            \* LongCycler.loaders: the length of each source, in key order
    max_batches,        \* LongCycler.max_batches
    cycles,             \* per source: its itertools.cycle iterator
    lc_pc,              \* position of LongCycler.__iter__
    zip_state,          \* the three iterators zip(...) draws from
    out,                \* the (key, batch) pairs yielded so far
    mtl,                \* the fields of an MTL_Cycler object
    which,              \* the class of the cycler that is being traversed
    frames,             \* per traversal: the locals of its call of __iter__
    seen,               \* per traversal: the (key, batch) pairs it has yielded
    ml,                 \* main_loop: the trainer's configuration and the mode
    ml_pc,              \* main_loop: the statement that runs next
    ml_loc,             \* main_loop: the locals of the batch
    ml_model,           \* main_loop: parameters, gradients, optimizer state
    ml_log,             \* main_loop: the calls made in the current batch
    lt,                 \* pruner: config.lottery_ticket, and (history) the
                        \* parameter values at construction
    lt_pc,              \* pruner: position of the epoch loop around it
    lt_epoch,           \* pruner: the epoch of the trainer's loop
    lt_store,           \* pruner: tensor storage, by address
    lt_data,            \* pruner: per parameter, the address of param.data
    lt_mask,            \* pruner: self.mask of the prunable tensor
    lt_best,            \* pruner: the best snapshot of early_stopping
    lt_opt,             \* pruner: the optimizer and the schedulers, the states
                        \* pre_epoch has captured, and (history) the latest call
    rs_log,             \* reset_initialization called directly: the parameter
                        \* values before the first call and after each call
    pb,                 \* post_backward: weights and gradients of a training
                        \* step, and the statement that runs next
    su,                 \* set-up of a trainer: the configuration, the scheduler
                        \* that was built, and what has run since
    ck,                 \* trainer() of bias_transfer around early_stopping: best_eval,
                        \* the epoch of its loop, and the checkpoints it has written
    sch,                \* the learning-rate scheduler handed to early_stopping:
                        \* config.scheduler, scheduler_options['mtl'], and the calls
                        \* of scheduler.step (their number and the latest one)
    pr                  \* prune_by_percentile called on a model with two prunable
                        \* tensors: weights, mask, and both before the latest call

esVars == <<config, pc, epoch, repeat, patience_counter, i, current_objective,
            best_objective, best_state_dict, heap, training, training_status,
            exit_line, retval, fails>>
lcVars == <<loaders, max_batches, cycles, lc_pc, zip_state, out>>
trVars == <<mtl, which, frames, seen>>
mlVars == <<ml, ml_pc, ml_loc, ml_model, ml_log>>
ltVars == <<lt, lt_pc, lt_epoch, lt_store, lt_data, lt_mask, lt_best, lt_opt>>
rsVars == <<rs_log>>
pbVars == <<pb>>
suVars == <<su>>
ckVars == <<ck>>
scVars == <<sch>>
prVars == <<pr>>
vars == <<esVars, lcVars, trVars, mlVars, ltVars, rsVars, pbVars, suVars, ckVars, scVars, prVars>>

\* What the steps of one component leave alone
nonEsVars == <<lcVars, trVars, mlVars, ltVars, rsVars, pbVars, suVars, ckVars, scVars, prVars>>
nonEsScVars == <<lcVars, trVars, mlVars, ltVars, rsVars, pbVars, suVars, ckVars, prVars>>
nonLcVars == <<esVars, trVars, mlVars, ltVars, rsVars, pbVars, suVars, ckVars, scVars, prVars>>
nonTrVars == <<esVars, lcVars, mlVars, ltVars, rsVars, pbVars, suVars, ckVars, scVars, prVars>>
nonMlVars == <<esVars, lcVars, trVars, ltVars, rsVars, pbVars, suVars, ckVars, scVars, prVars>>
nonLtVars == <<esVars, lcVars, trVars, mlVars, rsVars, pbVars, suVars, ckVars, scVars, prVars>>
nonRsVars == <<esVars, lcVars, trVars, mlVars, pbVars, suVars, ckVars, scVars, prVars>>
nonPbVars == <<esVars, lcVars, trVars, mlVars, ltVars, rsVars, suVars, ckVars, scVars, prVars>>
nonSuVars == <<esVars, lcVars, trVars, mlVars, ltVars, rsVars, pbVars, ckVars, scVars, prVars>>
nonCkVars == <<esVars, lcVars, trVars, mlVars, ltVars, rsVars, pbVars, suVars, scVars, prVars>>
nonPrVars == <<esVars, lcVars, trVars, mlVars, ltVars, rsVars, pbVars, suVars, ckVars, scVars>>

(***************************************************************************)
(* Floats.                                                                 *)
(***************************************************************************)
Fin(n) == <<"fin", n>>
NaN == <<"nan", 0>>
PInf == <<"inf", 1>>
NInf == <<"inf", -1>>

\* np.isfinite
IsFinite(x) == x[1] = "fin"

\* x * s for a sign s in {-1, 1}
MulSign(x, s) ==
    IF x[1] = "nan" THEN NaN ELSE <<x[1], x[2] * s>>

\* x - t for a finite t
SubFin(x, t) ==
    IF x[1] = "fin" THEN Fin(x[2] - t) ELSE x

\* x + t for a finite t
AddFin(x, t) ==
    IF x[1] = "fin" THEN Fin(x[2] + t) ELSE x

\* IEEE-754 x < y: false as soon as one side is NaN
Less(x, y) ==
    CASE x[1] = "nan" \/ y[1] = "nan" -> FALSE
      [] x[1] = "fin" /\ y[1] = "fin" -> x[2] < y[2]
      [] x[1] = "inf" /\ y[1] = "fin" -> x[2] < 0
      [] x[1] = "fin" /\ y[1] = "inf" -> y[2] > 0
      [] OTHER -> x[2] < y[2]

(***************************************************************************)
(* Objective records: task -> {eval, loss}.                                *)
(***************************************************************************)
Tasks == {"img_classification", "neural"}

FiniteTaskRecs ==
    {[eval |-> Fin(e), loss |-> Fin(MaxVal - e)] : e \in 0..MaxVal}

NonFiniteTaskRecs ==
    {[eval |-> NaN, loss |-> Fin(0)],
     [eval |-> Fin(MaxVal), loss |-> NaN],
     [eval |-> PInf, loss |-> Fin(0)],
     [eval |-> Fin(MaxVal), loss |-> NInf]}

\* The records an evaluation may return: every finite record, and the
\* records with a non-finite value.  early_stopping treats the tasks alike,
\* so the non-finite values are drawn for one task only, the other task
\* having its best finite value.
Records ==
    {[t \in Tasks |-> IF t = "neural" THEN n ELSE c] :
        c \in FiniteTaskRecs, n \in FiniteTaskRecs}
    \cup
    {[t \in Tasks |-> IF t = "neural" THEN n
                      ELSE [eval |-> Fin(MaxVal), loss |-> Fin(0)]] :
        n \in NonFiniteTaskRecs}

NoRecord == [t \in Tasks |-> [eval |-> Fin(0), loss |-> Fin(0)]]

\* A faulty variant of AnyNotFinite: only the eval values are looked at
AnyNotFinite_EvalOnly(obj) ==
    \E t \in DOMAIN obj : ~IsFinite(obj[t].eval)

\* map_to_task_dict(current_objective, isnotfinite).any()
AnyNotFinite(obj) ==
    \E t \in DOMAIN obj : ~IsFinite(obj[t].eval) \/ ~IsFinite(obj[t].loss)


(***************************************************************************)
(* The early-stopping controller.                                          *)
(***************************************************************************)
Intervals == 1..MaxInterval
Patiences == 0..MaxPatience
MaxIters == 0..MaxIter
Tolerances == {0, 1}
Starts == {0, 1}
DecaySteps == 0..MaxDecaySteps

\* The keyword arguments early_stopping is called with.  The caller passes
\* maximize = config.maximize, so one field stands for both, and no caller
\* passes switch_mode, which keeps its default.
Configs ==
    [interval : Intervals, patience : Patiences, start : Starts,
     max_iter : MaxIters, maximize : BOOLEAN, tolerance : Tolerances,
     switch_mode : {TRUE}, restore_best : BOOLEAN,
     lr_decay_steps : DecaySteps]

\* Heap addresses: the live model's parameter storage, and the storage of
\* the one snapshot the controller holds.
ModelAddr == 0
SnapAddr == 1
Addrs == {ModelAddr, SnapAddr}

\* A faulty variant of CopyState: the state dict itself, which shares the live storage
CopyState_Alias(h) ==
    <<ModelAddr, h>>

\* copy_state(model): a clone of every tensor of model.state_dict(), as
\* <<address of the copy, heap after the copy>>.
CopyState(h) ==
    <<SnapAddr, [h EXCEPT ![SnapAddr] = h[ModelAddr]]>>

\* model.load_state_dict(state): copies the values into the live parameters
LoadStateDict(h, state) ==
    [h EXCEPT ![ModelAddr] = h[state]]

\* "maximize = -1 if maximize else 1"
Sign(maximize) == IF maximize THEN -1 ELSE 1

\* obj_key = 'eval' if config.maximize else 'loss'
ObjKey(rec, maximize) == IF maximize THEN rec.eval ELSE rec.loss

\* One entry of test_current_obj's result
TaskImproved(new, best, maximize, tolerance) ==
    Less(MulSign(ObjKey(new, maximize), Sign(maximize)),
         SubFin(MulSign(ObjKey(best, maximize), Sign(maximize)), tolerance))

\* A faulty variant of TestCurrentObj: .any() in place of .all()
TestCurrentObj_Any(obj, best_obj, maximize, tolerance) ==
    \E t \in DOMAIN obj :
        TaskImproved(obj[t], best_obj[t], maximize, tolerance)

\* test_current_obj(obj, best_obj).all()
TestCurrentObj(obj, best_obj, maximize, tolerance) ==
    \A t \in DOMAIN obj :
        TaskImproved(obj[t], best_obj[t], maximize, tolerance)

\* _objective(): the mode the model is left in when the closure returns
ModeAfterObjective(switch_mode, status, mode) ==
    IF switch_mode THEN status ELSE mode

\* _objective(): the mode the model is left in when the closure raises
ModeAfterRaise(switch_mode, status, mode) ==
    IF switch_mode THEN FALSE ELSE mode

\* A faulty variant of RestoreBest: the snapshot is loaded whatever restore_best says
RestoreBest_Always(h, state, restore_best) ==
    LoadStateDict(h, state)

\* finalize(model, best_state_dict, ...) and decay_lr(model, best_state_dict, ...)
RestoreBest(h, state, restore_best) ==
    IF restore_best THEN LoadStateDict(h, state) ELSE h

\* A faulty variant of WhileCond: the counter is compared with <=
WhileCond_OffByOne(counter, ep, cfg) ==
    counter <= cfg.patience /\ ep < cfg.max_iter

\* A faulty variant of WhileCond: the epoch budget is not looked at
WhileCond_NoBudget(counter, ep, cfg) ==
    counter < cfg.patience

\* "while patience_counter < patience and epoch < max_iter"
WhileCond(counter, ep, cfg) ==
    counter < cfg.patience /\ ep < cfg.max_iter

\* list(current_objective.values())[0]: the record of the first task
FirstTask == "img_classification"

\* The value early_stopping hands to scheduler.step under plain adaptive
\* scheduling: list(current_objective.values())[0]['eval' if config.maximize else 'loss']
StepValue(obj, cfg) == ObjKey(obj[FirstTask], cfg.maximize)

\* scheduler.step(...) called at a place of early_stopping: s with the call
\* recorded ("none" stands for a call without argument)
Stepped(s, at, arg) ==
    [s EXCEPT !.steps = s.steps + 1, !.last = [at |-> at, arg |-> arg]]

\* A faulty variant of StepAfterEvaluation: manual schedules are not advanced
StepAfterEvaluation_AdaptiveOnly(s, obj, cfg) ==
    IF s.scheduler = "adaptive" /\ ~s.mtl
    THEN Stepped(s, "eval", StepValue(obj, cfg))
    ELSE s

\* Lines 121-123: the scheduler after the initial evaluation
StepAfterFirstEvaluation(s, obj, cfg) ==
    IF s.scheduler # "none" /\ s.scheduler = "adaptive" /\ ~s.mtl
    THEN Stepped(s, "start", StepValue(obj, cfg))
    ELSE s

\* Lines 147-151: the scheduler after a post-interval evaluation
StepAfterEvaluation(s, obj, cfg) ==
    IF s.scheduler # "none"
    THEN IF s.scheduler = "adaptive" /\ ~s.mtl
         THEN Stepped(s, "eval", StepValue(obj, cfg))
         ELSE IF s.scheduler = "manual"
         THEN Stepped(s, "eval", <<"none", 0>>)
         ELSE s
    ELSE s

\* Lines 169-170: the outer step of adaptive scheduling for multi-task runs
StepBetweenStages(s) ==
    IF s.scheduler = "adaptive" /\ s.mtl
    THEN Stepped(s, "stage_end", <<"none", 0>>)
    ELSE s

\* A faulty variant of ForCond: range(interval - 1)
ForCond_OneFewer(k, cfg) == k + 1 < cfg.interval

\* "for _ in range(interval)": another iteration follows k iterations
ForCond(k, cfg) == k < cfg.interval

\* "if (epoch < max_iter) & (lr_decay_steps > 1) & (repeat < lr_decay_steps)"
DecayCond(ep, rep, cfg) ==
    ep < cfg.max_iter /\ cfg.lr_decay_steps > 1 /\ rep < cfg.lr_decay_steps

\* A record beats another in every task by strictly more than the tolerance
\* (stated on the values themselves: larger eval, or smaller loss).
BeatsBest(new, best, cfg) ==
    \A t \in Tasks :
        IF cfg.maximize
        THEN Less(AddFin(best[t].eval, cfg.tolerance), new[t].eval)
        ELSE Less(new[t].loss, SubFin(best[t].loss, cfg.tolerance))

Traversals == {"a", "b"}

\* No call of __iter__ has been made
NoFrame == [pc |-> "none"]

\* A position of main_loop outside its loops over the modules
At(ph) == [at |-> ph, m |-> 0]

\* The locals of main_loop before the first batch
NoBatch ==
    [batch_idx |-> -1, model_ |-> <<>>, inputs |-> <<>>, shared_memory |-> {},
     outputs |-> "none", post |-> <<>>, loss |-> "none",
     before |-> [params |-> 0, optimizer |-> 0]]

InitPrunerIdle ==
    /\ lt = [percent_per_round |-> 0, round_length |-> 0, rounds |-> 0,
             construction |-> <<>>, pruning |-> TRUE, warmup |-> FALSE]
    /\ lt_opt = <<>>
    /\ lt_pc = "idle"
    /\ lt_epoch = 0
    /\ lt_store = <<>>
    /\ lt_data = <<>>
    /\ lt_mask = <<>>
    /\ lt_best = <<>>

InitResetIdle == rs_log = <<>>

InitPostBackwardIdle ==
    pb = [pc |-> "idle", mask |-> <<>>, w |-> <<>>, grad |-> <<>>, before |-> <<>>,
          steps |-> 0]

InitSetupIdle ==
    su = [trainer |-> "none", scheduler |-> "none", mtl |-> FALSE, lr_warmup |-> 0,
          max_iter |-> 0, pc |-> "idle",
          lr_scheduler |-> [base |-> "unset", warmup |-> FALSE],
          evaluations |-> 0, epochs |-> 0, steps |-> 0]

InitCheckpointIdle ==
    ck = [pc |-> "idle", best_eval |-> <<>>, epoch |-> 0, last |-> "none",
          writes |-> 0, checkpoint |-> <<>>]

InitSchedulerIdle ==
    sch = [scheduler |-> "none", mtl |-> FALSE, steps |-> 0,
           last |-> [at |-> "none", arg |-> <<"none", 0>>]]

InitPruneIdle ==
    pr = [pc |-> "idle", global_pruning |-> FALSE, percent |-> 0, w |-> <<>>,
          mask |-> <<>>, before |-> <<>>, saved |-> <<>>, calls |-> 0]





InitMainLoopIdle ==
    /\ ml = [modules |-> 0, batches |-> 0, train_mode |-> FALSE,
             optim_step_count |-> 0, ignore_main_loss |-> FALSE]
    /\ ml_pc = At("idle")
    /\ ml_loc = NoBatch
    /\ ml_model = [params |-> 0, grad |-> 0, optimizer |-> 0]
    /\ ml_log = <<>>

InitTraversalsIdle ==
    /\ mtl = [main_loader |-> 0, other_loaders |-> <<>>, ratio |-> 0,
              num_batches |-> 0]
    /\ which = "none"
    /\ frames = [t \in Traversals |-> NoFrame]
    /\ seen = [t \in Traversals |-> <<>>]

InitLongCyclerIdle ==
    /\ loaders = <<>>
    /\ max_batches = 0
    /\ cycles = <<>>
    /\ lc_pc = "idle"
    /\ zip_state = [keys |-> 0, cycles |-> 0, range |-> 0]
    /\ out = <<>>

Init ==
    /\ config \in Configs
    /\ pc = "init"
    /\ epoch = config.start
    /\ repeat = 0
    /\ patience_counter = -1
    /\ i = 0
    /\ current_objective = NoRecord
    /\ best_objective = NoRecord
    /\ best_state_dict = SnapAddr
    /\ heap = [a \in Addrs |-> config.start]
    /\ training \in BOOLEAN
    /\ training_status = FALSE
    /\ exit_line = 0
    /\ retval = "running"
    /\ fails = 0
    /\ InitLongCyclerIdle
    /\ InitTraversalsIdle
    /\ InitMainLoopIdle
    /\ InitPrunerIdle
    /\ InitResetIdle
    /\ InitPostBackwardIdle
    /\ InitSetupIdle
    /\ InitCheckpointIdle
    /\ InitSchedulerIdle
    /\ InitPruneIdle

\* First next() of the generator, up to the head of the stage loop:
\* the initial evaluation and the initial snapshot.
Start ==
    /\ pc = "init"
    /\ \E rec \in Records :
        /\ current_objective' = rec
        /\ best_objective' = rec
        /\ sch' = StepAfterFirstEvaluation(sch, rec, config)
    /\ training_status' = training
    /\ training' = ModeAfterObjective(config.switch_mode, training, training)
    /\ best_state_dict' = CopyState(heap)[1]
    /\ heap' = CopyState(heap)[2]
    /\ epoch' = config.start
    /\ repeat' = 0
    /\ pc' = "stage"
    /\ fails' = 0
    /\ UNCHANGED <<config, patience_counter, i, exit_line, retval, nonEsScVars>>

\* The closure raises in the initial or in a post-interval evaluation: the
\* exception leaves _objective and the generator.
EvalRaises ==
    /\ pc \in {"init", "eval"}
    /\ training' = ModeAfterRaise(config.switch_mode,
                                  IF pc = "init" THEN training ELSE training_status,
                                  training)
    /\ training_status' = IF pc = "init" THEN training ELSE training_status
    /\ pc' = "raised"
    /\ retval' = "exception"
    /\ UNCHANGED <<config, epoch, repeat, patience_counter, i, current_objective,
                   best_objective, best_state_dict, heap, exit_line, fails, nonEsVars>>

\* "for repeat in range(lr_decay_steps): patience_counter = -1"
StageHead ==
    /\ pc = "stage"
    /\ IF repeat < config.lr_decay_steps
       THEN /\ patience_counter' = -1
            /\ pc' = "while"
       ELSE /\ pc' = "finalize"
            /\ UNCHANGED patience_counter
    /\ fails' = IF repeat < config.lr_decay_steps THEN 0 ELSE fails
    /\ UNCHANGED <<config, epoch, repeat, i, current_objective, best_objective,
                   best_state_dict, heap, training, training_status, exit_line,
                   retval, nonEsVars>>

WhileHead ==
    /\ pc = "while"
    /\ pc' = IF WhileCond(patience_counter, epoch, config) THEN "for" ELSE "stage_end"
    /\ i' = 0
    /\ UNCHANGED <<config, epoch, repeat, patience_counter, current_objective,
                   best_objective, best_state_dict, heap, training,
                   training_status, exit_line, retval, fails, nonEsVars>>

\* One iteration of "for _ in range(interval)": the divergence check, then
\* the yield; after the last iteration, on to the evaluation.
ForStep ==
    /\ pc = "for"
    /\ IF ForCond(i, config)
       THEN /\ epoch' = epoch + 1
            /\ i' = i + 1
            /\ IF AnyNotFinite(current_objective)
               THEN /\ heap' = RestoreBest(heap, best_state_dict, config.restore_best)
                    /\ pc' = "done"
                    /\ exit_line' = 141
                    /\ retval' = "None"
               ELSE /\ pc' = "yielded"
                    /\ UNCHANGED <<heap, exit_line, retval>>
       ELSE /\ pc' = "eval"
            /\ i' = 0
            /\ UNCHANGED <<epoch, heap, exit_line, retval>>
    /\ UNCHANGED <<config, repeat, patience_counter, current_objective,
                   best_objective, best_state_dict, training, training_status,
                   fails, nonEsVars>>

\* The caller's loop body for a yielded epoch: one training epoch, which
\* updates the live parameters in place and leaves the model in train mode.
TrainEpoch ==
    /\ pc = "yielded"
    /\ heap' = [heap EXCEPT ![ModelAddr] = epoch]
    /\ training' = TRUE
    /\ pc' = "for"
    /\ UNCHANGED <<config, epoch, repeat, patience_counter, i, current_objective,
                   best_objective, best_state_dict, training_status, exit_line,
                   retval, fails, nonEsVars>>

\* The post-interval evaluation and the patience bookkeeping.
Evaluate ==
    /\ pc = "eval"
    /\ \E rec \in Records :
        /\ current_objective' = rec
        /\ sch' = StepAfterEvaluation(sch, rec, config)
        /\ IF TestCurrentObj(rec, best_objective, config.maximize, config.tolerance)
           THEN /\ best_state_dict' = CopyState(heap)[1]
                /\ heap' = CopyState(heap)[2]
                /\ best_objective' = rec
                /\ patience_counter' = -1
           ELSE /\ patience_counter' = patience_counter + 1
                /\ UNCHANGED <<best_state_dict, heap, best_objective>>
        /\ fails' = IF BeatsBest(rec, best_objective, config) THEN 0 ELSE fails + 1
    /\ training' = ModeAfterObjective(config.switch_mode, training_status, training)
    /\ pc' = "while"
    /\ UNCHANGED <<config, epoch, repeat, i, training_status, exit_line, retval,
                   nonEsScVars>>

\* The end of a decay stage: the outer step of the scheduler and the
\* between-stage restore.
StageEnd ==
    /\ pc = "stage_end"
    /\ heap' = IF DecayCond(epoch, repeat, config)
               THEN RestoreBest(heap, best_state_dict, config.restore_best)
               ELSE heap
    /\ sch' = IF DecayCond(epoch, repeat, config) THEN StepBetweenStages(sch) ELSE sch
    /\ repeat' = repeat + 1
    /\ pc' = "stage"
    /\ UNCHANGED <<config, epoch, patience_counter, i, current_objective,
                   best_objective, best_state_dict, training, training_status,
                   exit_line, retval, fails, nonEsScVars>>

\* The finalize after the stage loop, and the end of the generator.
Finalize ==
    /\ pc = "finalize"
    /\ heap' = RestoreBest(heap, best_state_dict, config.restore_best)
    /\ pc' = "done"
    /\ exit_line' = 178
    /\ retval' = "None"
    /\ UNCHANGED <<config, epoch, repeat, patience_counter, i, current_objective,
                   best_objective, best_state_dict, training, training_status,
                   fails, nonEsVars>>

Next ==
    \/ Start
    \/ EvalRaises
    \/ StageHead
    \/ WhileHead
    \/ ForStep
    \/ TrainEpoch
    \/ Evaluate
    \/ StageEnd
    \/ Finalize

Spec == Init /\ [][Next]_vars

\* The caller keeps resuming the generator, and the generator's own steps run.
FairSpec == Init /\ [][Next]_vars /\ WF_vars(Next)

\* The controller with a scheduler, as trainer() of bias_transfer calls it:
\* config.scheduler is "adaptive" (ReduceLROnPlateau, or StepLR when
\* scheduler_options['mtl'] is set) or "manual" (MultiStepLR), and a scheduler
\* object is passed exactly when config.scheduler is not None.  start and
\* tolerance are 0.
ScheduledConfigs ==
    {c \in Configs : c.start = 0 /\ c.tolerance = 0}

InitScheduled ==
    /\ config \in ScheduledConfigs
    /\ pc = "init"
    /\ epoch = config.start
    /\ repeat = 0
    /\ patience_counter = -1
    /\ i = 0
    /\ current_objective = NoRecord
    /\ best_objective = NoRecord
    /\ best_state_dict = SnapAddr
    /\ heap = [a \in Addrs |-> config.start]
    /\ training = TRUE
    /\ training_status = FALSE
    /\ exit_line = 0
    /\ retval = "running"
    /\ fails = 0
    /\ \E kind \in {<<"none", FALSE>>, <<"adaptive", FALSE>>, <<"adaptive", TRUE>>,
                     <<"manual", FALSE>>} :
        sch = [scheduler |-> kind[1], mtl |-> kind[2], steps |-> 0,
               last |-> [at |-> "none", arg |-> <<"none", 0>>]]
    /\ InitLongCyclerIdle
    /\ InitTraversalsIdle
    /\ InitMainLoopIdle
    /\ InitPrunerIdle
    /\ InitResetIdle
    /\ InitPostBackwardIdle
    /\ InitSetupIdle
    /\ InitCheckpointIdle
    /\ InitPruneIdle

SpecScheduled == InitScheduled /\ [][Next]_vars

(***************************************************************************)
(* LongCycler.                                                             *)
(*                                                                         *)
(* A source is given by its length n; iterating it yields the batches      *)
(* numbered 0 .. n-1.  The keys of the sources are their positions 1 .. K  *)
(* in sources.keys().                                                      *)
(***************************************************************************)
RECURSIVE SeqMin(_)
\* A faulty variant of SeqMax: min in place of max
SeqMin(lens) ==
    IF Len(lens) = 1 THEN lens[1]
    ELSE LET m == SeqMin(Tail(lens)) IN IF lens[1] < m THEN lens[1] ELSE m

RECURSIVE SeqMax(_)
\* max([len(loader) for loader in self.loaders.values()])
SeqMax(lens) ==
    IF Len(lens) = 1 THEN lens[1]
    ELSE LET m == SeqMax(Tail(lens)) IN IF lens[1] > m THEN lens[1] ELSE m

\* A faulty variant of CycleNext: an exhausted cycle keeps handing out its last item
CycleNext_NoRestart(c) ==
    <<c.pos, [c EXCEPT !.pos = IF c.pos + 1 = c.len THEN c.pos ELSE c.pos + 1]>>

\* next() of an itertools.cycle over len items, the item at position pos
\* being due: <<position handed out, the iterator afterwards>>.  After the
\* last item the cycle starts over with the first of the items it saved.
CycleNext(c) ==
    <<c.pos, [c EXCEPT !.pos = IF c.pos + 1 = c.len THEN 0 ELSE c.pos + 1]>>

\* itertools.cycle(iterable) over len items
Cycle(len) == [pos |-> 0, len |-> len]

\* LongCycler.__len__
LongCyclerLen == Len(loaders) * max_batches

LoaderLists ==
    UNION {[1..k -> 1..MaxLen] : k \in 1..MaxSources}

InitControllerIdle ==
    /\ config = [interval |-> 1, patience |-> 0, start |-> 0, max_iter |-> 0,
                 maximize |-> TRUE, tolerance |-> 0, switch_mode |-> TRUE,
                 restore_best |-> TRUE, lr_decay_steps |-> 0]
    /\ pc = "idle"
    /\ epoch = 0
    /\ repeat = 0
    /\ patience_counter = -1
    /\ i = 0
    /\ current_objective = NoRecord
    /\ best_objective = NoRecord
    /\ best_state_dict = SnapAddr
    /\ heap = [a \in Addrs |-> 0]
    /\ training = TRUE
    /\ training_status = FALSE
    /\ exit_line = 0
    /\ retval = "running"
    /\ fails = 0

\* LongCycler.__init__(loaders)
InitLongCycler ==
    /\ loaders \in LoaderLists
    /\ max_batches = SeqMax(loaders)
    /\ cycles = <<>>
    /\ lc_pc = "constructed"
    /\ zip_state = [keys |-> 0, cycles |-> 0, range |-> 0]
    /\ out = <<>>
    /\ InitControllerIdle
    /\ InitTraversalsIdle
    /\ InitMainLoopIdle
    /\ InitPrunerIdle
    /\ InitResetIdle
    /\ InitPostBackwardIdle
    /\ InitSetupIdle
    /\ InitCheckpointIdle
    /\ InitSchedulerIdle
    /\ InitPruneIdle

\* next() of an itertools.cycle over no items raises StopIteration
CycleIsEmpty(c) == c.len = 0

\* LongCycler.__iter__ up to its first yield: the locals of the call, which
\* are one cycle per source and the three iterators of zip
LongCyclerFrame(ls) ==
    [pc |-> "iterating",
     cycles |-> [k \in 1..Len(ls) |-> Cycle(ls[k])],
     zip_state |-> [keys |-> Cycle(Len(ls)),
                    cycles |-> Cycle(Len(ls)),
                    range |-> 0]]

\* One next() on the generator with the locals f: zip draws from cycle(keys),
\* cycle(cycles) and range(len(loaders) * max_batches) in this order and
\* stops when range is exhausted; otherwise the pair (k, next(loader)) is
\* yielded.  next(loader) on a source without batches raises StopIteration
\* inside the generator, which leaves it as a RuntimeError.
LongCyclerResume(f, ls, mb) ==
    LET key == CycleNext(f.zip_state.keys)
        cyc == CycleNext(f.zip_state.cycles)
        k == key[1] + 1
        c == cyc[1] + 1
        batch == CycleNext(f.cycles[c])
        drawn == [keys |-> key[2], cycles |-> cyc[2],
                  range |-> f.zip_state.range + 1]
    IN IF f.zip_state.range < Len(ls) * mb
       THEN IF CycleIsEmpty(f.cycles[c])
            THEN [frame |-> [f EXCEPT !.pc = "raised", !.zip_state = drawn],
                  yielded |-> <<>>]
            ELSE [frame |-> [pc |-> "iterating",
                             cycles |-> [f.cycles EXCEPT ![c] = batch[2]],
                             zip_state |-> drawn],
                  yielded |-> << <<k, batch[1]>> >>]
       ELSE [frame |-> [f EXCEPT !.pc = "exhausted",
                                 !.zip_state.keys = key[2],
                                 !.zip_state.cycles = cyc[2]],
             yielded |-> <<>>]

\* iter(cycler) on a LongCycler that is not being traversed
LongCyclerIter ==
    /\ lc_pc \in {"constructed", "exhausted"}
    /\ LET f == LongCyclerFrame(loaders)
       IN /\ cycles' = f.cycles
          /\ zip_state' = f.zip_state
          /\ lc_pc' = f.pc
    /\ out' = <<>>
    /\ UNCHANGED <<loaders, max_batches, nonLcVars>>

\* One step of the traversal
LongCyclerNext ==
    /\ lc_pc = "iterating"
    /\ LET r == LongCyclerResume([pc |-> lc_pc, cycles |-> cycles,
                                  zip_state |-> zip_state],
                                 loaders, max_batches)
       IN /\ cycles' = r.frame.cycles
          /\ zip_state' = r.frame.zip_state
          /\ lc_pc' = r.frame.pc
          /\ out' = out \o r.yielded
    /\ UNCHANGED <<loaders, max_batches, nonLcVars>>

NextLongCycler ==
    \/ LongCyclerIter
    \/ LongCyclerNext

SpecLongCycler == InitLongCycler /\ [][NextLongCycler]_vars

(***************************************************************************)
(* MTL_Cycler, and traversals of a cycler as calls of __iter__.            *)
(*                                                                         *)
(* The primary source has key 0, the other sources the keys 1 .. K in the  *)
(* order of other_loaders.  __iter__ is a generator function: every call   *)
(* creates a frame with its own locals, and next() resumes that frame.     *)
(***************************************************************************)

\* A faulty variant of MtlCycler: the length counts the non-primary slots only
MtlCycler_RatioOnly(main, others, ratio) ==
    [main_loader |-> main, other_loaders |-> others, ratio |-> ratio,
     num_batches |-> main * ratio]

\* MTL_Cycler.__init__(loaders, main_key, ratio)
MtlCycler(main, others, ratio) ==
    [main_loader |-> main, other_loaders |-> others, ratio |-> ratio,
     num_batches |-> main * (ratio + 1)]

\* MTL_Cycler.__len__
MtlCyclerLen(m) == m.num_batches

\* MTL_Cycler.__iter__ up to its first yield: the locals of the call and of
\* the call of generate_batch it iterates over (gpc, i, j)
MtlCyclerFrame(m) ==
    [pc |-> "iterating",
     other_cycles |-> [k \in 1..Len(m.other_loaders) |-> Cycle(m.other_loaders[k])],
     other_cycles_dict |-> Cycle(Len(m.other_loaders)),
     main_cycle |-> Cycle(m.main_loader),
     gpc |-> "start", i |-> 0, j |-> 0]

\* One next() on generate_batch: the loader it yields ("main", or the
\* position of a non-primary source), "stop" when the loop over
\* range(len(main_loader)) is over, "raise" when next(other_cycles_dict)
\* finds no non-primary source.
GenerateBatchResume(f, m) ==
    IF f.gpc = "in_loop" /\ f.j < m.ratio
    THEN IF CycleIsEmpty(f.other_cycles_dict)
         THEN [frame |-> f, item |-> "raise", key |-> 0]
         ELSE LET n == CycleNext(f.other_cycles_dict)
              IN [frame |-> [f EXCEPT !.other_cycles_dict = n[2], !.j = f.j + 1],
                  item |-> "other", key |-> n[1] + 1]
    ELSE LET next_i == IF f.gpc = "start" THEN 0 ELSE f.i + 1
         IN IF next_i < m.main_loader
            THEN [frame |-> [f EXCEPT !.gpc = "in_loop", !.i = next_i, !.j = 0],
                  item |-> "main", key |-> 0]
            ELSE [frame |-> f, item |-> "stop", key |-> 0]

\* One next() on the generator of __iter__ with the locals f: the pair
\* (k, next(loader)) for the loader generate_batch hands out.  A
\* StopIteration raised inside either generator leaves as a RuntimeError.
MtlCyclerResume(f, m) ==
    LET g == GenerateBatchResume(f, m)
        loader == IF g.item = "main" THEN g.frame.main_cycle
                  ELSE g.frame.other_cycles[g.key]
        batch == CycleNext(loader)
    IN CASE g.item = "stop" ->
              [frame |-> [f EXCEPT !.pc = "exhausted"], yielded |-> <<>>]
         [] g.item = "raise" ->
              [frame |-> [f EXCEPT !.pc = "raised"], yielded |-> <<>>]
         [] g.item \in {"main", "other"} /\ CycleIsEmpty(loader) ->
              [frame |-> [g.frame EXCEPT !.pc = "raised"], yielded |-> <<>>]
         [] g.item = "main" /\ ~CycleIsEmpty(loader) ->
              [frame |-> [g.frame EXCEPT !.main_cycle = batch[2]],
               yielded |-> << <<0, batch[1]>> >>]
         [] g.item = "other" /\ ~CycleIsEmpty(loader) ->
              [frame |-> [g.frame EXCEPT !.other_cycles[g.key] = batch[2]],
               yielded |-> << <<g.key, batch[1]>> >>]

\* A faulty variant of FrameOf: the cursors are kept in one place for all
\* traversals
FrameOf_Shared(t) == "a"

\* The frame a traversal resumes is the one its own call of __iter__ created
FrameOf(t) == t

ShortLoaderLists(least) ==
    UNION {[1..k -> least..MaxShortLen] : k \in 1..MaxShortSources}

\* The cyclers whose sources all have batches
InitTraversals ==
    /\ \/ /\ which = "LongCycler"
          /\ loaders \in ShortLoaderLists(1)
          /\ max_batches = SeqMax(loaders)
          /\ mtl = MtlCycler(0, <<>>, 0)
       \/ /\ which = "MTL_Cycler"
          /\ \E main \in 1..MaxShortLen, ratio \in 0..MaxRatio,
                others \in {<<>>} \cup ShortLoaderLists(1) :
                mtl = MtlCycler(main, others, ratio)
          /\ loaders = <<>>
          /\ max_batches = 0
    /\ frames = [t \in Traversals |-> NoFrame]
    /\ seen = [t \in Traversals |-> <<>>]
    /\ cycles = <<>>
    /\ lc_pc = "idle"
    /\ zip_state = [keys |-> 0, cycles |-> 0, range |-> 0]
    /\ out = <<>>
    /\ InitControllerIdle
    /\ InitMainLoopIdle
    /\ InitPrunerIdle
    /\ InitResetIdle
    /\ InitPostBackwardIdle
    /\ InitSetupIdle
    /\ InitCheckpointIdle
    /\ InitSchedulerIdle
    /\ InitPruneIdle

\* The cyclers with a source that has no batches
InitEmptySource ==
    /\ \/ /\ which = "LongCycler"
          /\ loaders \in ShortLoaderLists(0)
          /\ \E k \in 1..Len(loaders) : loaders[k] = 0
          /\ max_batches = SeqMax(loaders)
          /\ mtl = MtlCycler(0, <<>>, 0)
       \/ /\ which = "MTL_Cycler"
          /\ \E main \in 0..MaxShortLen, ratio \in 0..MaxRatio,
                others \in ShortLoaderLists(0) :
                /\ main = 0 \/ \E k \in 1..Len(others) : others[k] = 0
                /\ mtl = MtlCycler(main, others, ratio)
          /\ loaders = <<>>
          /\ max_batches = 0
    /\ frames = [t \in Traversals |-> NoFrame]
    /\ seen = [t \in Traversals |-> <<>>]
    /\ cycles = <<>>
    /\ lc_pc = "idle"
    /\ zip_state = [keys |-> 0, cycles |-> 0, range |-> 0]
    /\ out = <<>>
    /\ InitControllerIdle
    /\ InitMainLoopIdle
    /\ InitPrunerIdle
    /\ InitResetIdle
    /\ InitPostBackwardIdle
    /\ InitSetupIdle
    /\ InitCheckpointIdle
    /\ InitSchedulerIdle
    /\ InitPruneIdle

\* iter(cycler): a traversal begins, or begins anew after its end
StartTraversal ==
    /\ \E t \in Traversals :
        /\ frames[FrameOf(t)].pc \in {"none", "exhausted", "raised"}
        /\ frames' = [frames EXCEPT ![FrameOf(t)] =
                        IF which = "LongCycler" THEN LongCyclerFrame(loaders)
                        ELSE MtlCyclerFrame(mtl)]
        /\ seen' = [seen EXCEPT ![t] = <<>>]
    /\ UNCHANGED <<mtl, which, nonTrVars>>

\* next() on the generator of a traversal
AdvanceTraversal ==
    /\ \E t \in Traversals :
        /\ frames[FrameOf(t)].pc = "iterating"
        /\ LET r == IF which = "LongCycler"
                    THEN LongCyclerResume(frames[FrameOf(t)], loaders, max_batches)
                    ELSE MtlCyclerResume(frames[FrameOf(t)], mtl)
           IN /\ frames' = [frames EXCEPT ![FrameOf(t)] = r.frame]
              /\ seen' = [seen EXCEPT ![t] = seen[t] \o r.yielded]
    /\ UNCHANGED <<mtl, which, nonTrVars>>

NextTraversals ==
    \/ StartTraversal
    \/ AdvanceTraversal

SpecTraversals == InitTraversals /\ [][NextTraversals]_vars

SpecEmptySource == InitEmptySource /\ [][NextTraversals]_vars

(***************************************************************************)
(* Trainer.main_loop of nntransfer/trainer/trainer.py: one epoch over the  *)
(* batches of the data cycler, with the hooks of the main-loop modules.    *)
(*                                                                         *)
(* The modules are numbered 1 .. n in the order of the list                *)
(* main_loop_modules.  What a hook does to the values it is handed is not  *)
(* part of main_loop: a value is modelled by the sequence of the modules   *)
(* whose hooks have returned it so far, so that the route a value took is  *)
(* visible, and every pre_forward hook leaves its module's number in       *)
(* shared_memory.  A tensor is modelled by whether it is finite, holds an  *)
(* infinity or holds a NaN.                                                *)
(***************************************************************************)
OutKinds == {"finite", "inf", "nan"}

\* A faulty variant of ModuleAt: the list is walked from its end
ModuleAt_Reversed(k) == ml.modules + 1 - k

\* The k-th module of "for module in self.main_loop_modules"
ModuleAt(k) == k

\* The position at the head of a loop over the modules, or after it when
\* there is no module
EnterHooks(ph, after) ==
    IF ml.modules = 0 THEN after ELSE [at |-> ph, m |-> 1]

\* The position after the hook of the module at position pos.m has returned
NextHook(pos, after) ==
    IF pos.m < ml.modules THEN [pos EXCEPT !.m = pos.m + 1] ELSE after

\* A faulty variant of HookOutcome: the exception of a hook is swallowed
HookOutcome_Swallowed(raises, next_pc) == next_pc

\* No statement of main_loop catches an exception: a hook that raises ends
\* main_loop
HookOutcome(raises, next_pc) ==
    IF raises THEN At("raised") ELSE next_pc

\* A faulty variant of OutputsInvalid: only NaN is looked for
OutputsInvalid_NanOnly(kind) == kind = "nan"

\* outputs.isinf().any() or outputs.isnan().any()
OutputsInvalid(kind) == kind \in {"inf", "nan"}

\* A faulty variant of StepDue: the optimizer steps in every batch
StepDue_Always == TRUE

\* not optim_step_count or (batch_idx + 1) % optim_step_count == 0
StepDue ==
    \/ ml.optim_step_count = 0
    \/ (ml_loc.batch_idx + 1) % ml.optim_step_count = 0

\* An entry of the record of calls
Call(op, m, raised, got) == [op |-> op, m |-> m, raised |-> raised, got |-> got]

InitMainLoop ==
    /\ ml \in [modules : 0..MaxModules, batches : 1..MaxBatches,
               train_mode : BOOLEAN, optim_step_count : 0..MaxStepCount,
               ignore_main_loss : BOOLEAN]
    /\ ml_pc = EnterHooks("pre_epoch",
                          IF ml.train_mode THEN At("zero_grad") ELSE At("batch"))
    /\ ml_loc = NoBatch
    /\ ml_model = [params |-> 0, grad |-> 0, optimizer |-> 0]
    /\ ml_log = <<>>
    /\ InitControllerIdle
    /\ InitLongCyclerIdle
    /\ InitTraversalsIdle
    /\ InitPrunerIdle
    /\ InitResetIdle
    /\ InitPostBackwardIdle
    /\ InitSetupIdle
    /\ InitCheckpointIdle
    /\ InitSchedulerIdle
    /\ InitPruneIdle

\* module.pre_epoch(self.model, mode, **module_options)
MainLoopPreEpoch ==
    /\ ml_pc.at = "pre_epoch"
    /\ \E raises \in BOOLEAN :
        /\ ml_log' = Append(ml_log, Call("pre_epoch", ModuleAt(ml_pc.m), raises, <<>>))
        /\ ml_pc' = HookOutcome(raises, NextHook(ml_pc,
                        IF ml.train_mode THEN At("zero_grad") ELSE At("batch")))
    /\ UNCHANGED <<ml, ml_loc, ml_model, nonMlVars>>

\* self.optimizer.zero_grad(), before the first batch and after a step
MainLoopZeroGrad ==
    /\ ml_pc.at = "zero_grad"
    /\ ml_model' = [ml_model EXCEPT !.grad = 0]
    /\ ml_pc' = At("batch")
    /\ UNCHANGED <<ml, ml_loc, ml_log, nonMlVars>>

\* The head of "for batch_idx, batch_data in t": the locals of the next
\* batch, with shared_memory = {} and model_ = self.model, or the end of the
\* loop
MainLoopNextBatch ==
    /\ ml_pc.at = "batch"
    /\ IF ml_loc.batch_idx + 1 < ml.batches
       THEN /\ ml_loc' = [NoBatch EXCEPT
                            !.batch_idx = ml_loc.batch_idx + 1,
                            !.loss = "finite",
                            !.before = [params |-> ml_model.params,
                                        optimizer |-> ml_model.optimizer]]
            /\ ml_log' = <<>>
            /\ ml_pc' = EnterHooks("pre_forward", At("forward"))
       ELSE /\ ml_pc' = EnterHooks("post_epoch", At("returned"))
            /\ UNCHANGED <<ml_loc, ml_log>>
    /\ UNCHANGED <<ml, ml_model, nonMlVars>>

\* model_, inputs = module.pre_forward(model_, inputs, task_key, shared_memory)
MainLoopPreForward ==
    /\ ml_pc.at = "pre_forward"
    /\ \E raises \in BOOLEAN :
        LET m == ModuleAt(ml_pc.m)
        IN /\ ml_log' = Append(ml_log, Call("pre_forward", m, raises,
                          <<ml_loc.model_, ml_loc.inputs, ml_loc.shared_memory>>))
           /\ ml_loc' = IF raises THEN ml_loc
                        ELSE [ml_loc EXCEPT
                                !.model_ = Append(ml_loc.model_, m),
                                !.inputs = Append(ml_loc.inputs, m),
                                !.shared_memory = ml_loc.shared_memory \cup {m}]
           /\ ml_pc' = HookOutcome(raises, NextHook(ml_pc, At("forward")))
    /\ UNCHANGED <<ml, ml_model, nonMlVars>>

\* outputs = model_(inputs)
MainLoopForward ==
    /\ ml_pc.at = "forward"
    /\ \E kind \in OutKinds :
        ml_loc' = [ml_loc EXCEPT !.outputs = kind]
    /\ ml_log' = Append(ml_log, Call("forward", 0, FALSE,
                                     <<ml_loc.model_, ml_loc.inputs>>))
    /\ ml_pc' = EnterHooks("post_forward", At("check"))
    /\ UNCHANGED <<ml, ml_model, nonMlVars>>

\* outputs, loss, targets = module.post_forward(outputs, loss, targets,
\*                                              **shared_memory)
MainLoopPostForward ==
    /\ ml_pc.at = "post_forward"
    /\ \E raises \in BOOLEAN :
        LET m == ModuleAt(ml_pc.m)
        IN /\ ml_log' = Append(ml_log, Call("post_forward", m, raises,
                          <<ml_loc.post, ml_loc.shared_memory>>))
           /\ ml_loc' = IF raises THEN ml_loc
                        ELSE [ml_loc EXCEPT !.post = Append(ml_loc.post, m)]
           /\ ml_pc' = HookOutcome(raises, NextHook(ml_pc, At("check")))
    /\ UNCHANGED <<ml, ml_model, nonMlVars>>

\* The checks of outputs, compute_loss and the check of the loss; then
\* the steps of training when train_mode is set
MainLoopCheck ==
    /\ ml_pc.at = "check"
    /\ IF OutputsInvalid(ml_loc.outputs)
       THEN /\ ml_pc' = At("raised")
            /\ ml_log' = Append(ml_log, Call("check", 0, TRUE, <<ml_loc.outputs>>))
            /\ UNCHANGED ml_loc
       ELSE \E loss \in OutKinds :
            /\ ml_loc' = [ml_loc EXCEPT !.loss = loss]
            /\ ml_log' = Append(ml_log, Call("check", 0, loss = "nan",
                                             <<ml_loc.outputs, loss>>))
            /\ ml_pc' = IF loss = "nan" THEN At("raised")
                        ELSE IF ml.train_mode THEN At("backward")
                        ELSE At("batch")
    /\ UNCHANGED <<ml, ml_model, nonMlVars>>

\* loss.backward(), unless the main loss is ignored for the task
MainLoopBackward ==
    /\ ml_pc.at = "backward"
    /\ IF ml.ignore_main_loss
       THEN UNCHANGED <<ml_model, ml_log>>
       ELSE /\ ml_model' = [ml_model EXCEPT !.grad = ml_model.grad + 1]
            /\ ml_log' = Append(ml_log, Call("backward", 0, FALSE,
                                             <<ml_loc.outputs, ml_loc.loss>>))
    /\ ml_pc' = EnterHooks("post_backward",
                           IF StepDue THEN At("optimizer") ELSE At("batch"))
    /\ UNCHANGED <<ml, ml_loc, nonMlVars>>

\* module.post_backward(self.model)
MainLoopPostBackward ==
    /\ ml_pc.at = "post_backward"
    /\ \E raises \in BOOLEAN :
        /\ ml_log' = Append(ml_log, Call("post_backward", ModuleAt(ml_pc.m), raises, <<>>))
        /\ ml_pc' = HookOutcome(raises, NextHook(ml_pc,
                        IF StepDue THEN At("optimizer") ELSE At("batch")))
    /\ UNCHANGED <<ml, ml_loc, ml_model, nonMlVars>>

\* self.optimizer.step()
MainLoopOptimizerStep ==
    /\ ml_pc.at = "optimizer"
    /\ ml_model' = [ml_model EXCEPT !.params = ml_model.params + 1,
                                    !.optimizer = ml_model.optimizer + 1]
    /\ ml_log' = Append(ml_log, Call("optimizer", 0, FALSE,
                                     <<ml_loc.outputs, ml_loc.loss>>))
    /\ ml_pc' = EnterHooks("post_optimizer", At("zero_grad"))
    /\ UNCHANGED <<ml, ml_loc, nonMlVars>>

\* module.post_optimizer(self.model)
MainLoopPostOptimizer ==
    /\ ml_pc.at = "post_optimizer"
    /\ \E raises \in BOOLEAN :
        /\ ml_log' = Append(ml_log, Call("post_optimizer", ModuleAt(ml_pc.m), raises, <<>>))
        /\ ml_pc' = HookOutcome(raises, NextHook(ml_pc, At("zero_grad")))
    /\ UNCHANGED <<ml, ml_loc, ml_model, nonMlVars>>

\* module.post_epoch(self.model)
MainLoopPostEpoch ==
    /\ ml_pc.at = "post_epoch"
    /\ \E raises \in BOOLEAN :
        /\ ml_log' = Append(ml_log, Call("post_epoch", ModuleAt(ml_pc.m), raises, <<>>))
        /\ ml_pc' = HookOutcome(raises, NextHook(ml_pc, At("returned")))
    /\ UNCHANGED <<ml, ml_loc, ml_model, nonMlVars>>

NextMainLoop ==
    \/ MainLoopPreEpoch
    \/ MainLoopZeroGrad
    \/ MainLoopNextBatch
    \/ MainLoopPreForward
    \/ MainLoopForward
    \/ MainLoopPostForward
    \/ MainLoopCheck
    \/ MainLoopBackward
    \/ MainLoopPostBackward
    \/ MainLoopOptimizerStep
    \/ MainLoopPostOptimizer
    \/ MainLoopPostEpoch

SpecMainLoop == InitMainLoop /\ [][NextMainLoop]_vars

(***************************************************************************)
(* LotteryTicketPruning of                                                 *)
(* bias_transfer/trainer/main_loop_modules/lottery_ticket_pruning.py,      *)
(* inside the epoch loop of the trainer and the snapshots of               *)
(* early_stopping.                                                         *)
(*                                                                         *)
(* The model has one prunable tensor (core.weight, one number per entry),  *)
(* a bias, the weight of the readout and a parameter whose name holds      *)
(* neither "weight" nor "bias"; the last three are single numbers.  A      *)
(* tensor has a storage address: "param.data = t" makes the parameter      *)
(* share the storage of t, an arithmetic expression makes a new tensor,    *)
(* and an in-place update writes to the storage whoever shares it.         *)
(* Weights are integers, so that |w| < EPS is w = 0.  percent_per_round is *)
(* taken as a whole number; the rounding of the float it is computed as    *)
(* is not modelled.                                                        *)
(***************************************************************************)
ParamNames == {"core.weight", "core.bias", "readout.weight", "core.scale"}

\* "weight" in name
HasWeight(name) == name \in {"core.weight", "features.weight", "readout.weight"}

\* "bias" in name
HasBias(name) == name = "core.bias"

\* self.config.readout_name in name
HasReadoutName(name) == name = "readout.weight"

\* "weight" in name and self.config.readout_name not in name
Prunable(name) == HasWeight(name) /\ ~HasReadoutName(name)

\* The entries of the prunable tensor
Entries == 1..2

Weights == (-1)..MaxWeight

\* The values of the parameters that are single numbers: tensors of one entry
Scalars == {<<0>>, <<1>>}

LiveAddr(name) == <<"live", name>>
SavedAddr(name) == <<"saved", name>>

\* torch.abs
Abs(x) == IF x < 0 THEN 0 - x ELSE x

\* The values of the live parameters: model.state_dict()
LiveValues(store, data) == [name \in ParamNames |-> store[data[name]]]

\* A faulty variant of NewMask: an entry at or above the percentile is alive
\* again
NewMask_Revive(w, mask, value100) ==
    [e \in Entries |-> IF 100 * Abs(w[e]) < value100 THEN 0 ELSE 1]

\* torch.where(torch.abs(param.data) < percentile_value, zeros, self.mask[step])
NewMask(w, mask, value100) ==
    [e \in Entries |-> IF 100 * Abs(w[e]) < value100 THEN 0 ELSE mask[e]]

\* np.percentile(abs_alive, percent), times 100: linear interpolation
\* between the two order statistics around position percent/100 * (n - 1).
\* Of no alive entry it is NaN, which compares false with everything.
Percentile100(w, mask, percent) ==
    LET alive == {e \in Entries : mask[e] # 0}
        n == Cardinality(alive)
        Kth(k) == CHOOSE v \in {Abs(w[e]) : e \in alive} :
                    /\ Cardinality({e \in alive : Abs(w[e]) < v}) <= k
                    /\ k < Cardinality({e \in alive : Abs(w[e]) <= v})
        lo == (percent * (n - 1)) \div 100
        rem == (percent * (n - 1)) % 100
        hi == IF lo + 1 < n THEN lo + 1 ELSE lo
    IN IF n = 0 THEN 0
       ELSE 100 * Kth(lo) + rem * (Kth(hi) - Kth(lo))

\* prune_by_percentile(model, percent): the new mask, and the prunable
\* tensor times the new mask as a new tensor
PruneByPercentile(store, data, mask, percent) ==
    LET w == store[data["core.weight"]]
        new_mask == NewMask(w, mask, Percentile100(w, mask, percent))
    IN [store |-> [store EXCEPT ![LiveAddr("core.weight")] =
                        [e \in Entries |-> w[e] * new_mask[e]]],
        data |-> [data EXCEPT !["core.weight"] = LiveAddr("core.weight")],
        mask |-> new_mask]

\* A faulty variant of ResetData: the masked saved tensor is added to the
\* live tensor instead of replacing it
ResetData_Added(name, store, data, mask) ==
    IF Prunable(name)
    THEN [addr |-> LiveAddr(name),
          value |-> [e \in Entries |->
                        store[data[name]][e] + mask[e] * store[SavedAddr(name)][e]]]
    ELSE IF HasBias(name) \/ HasWeight(name)
    THEN [addr |-> SavedAddr(name), value |-> store[SavedAddr(name)]]
    ELSE [addr |-> data[name], value |-> store[data[name]]]

\* The body of the loop of reset_initialization(model, reinit=False) for
\* one parameter: the address of param.data afterwards and the value there.
\* "param.data = self.mask[step] * init" is a new tensor; "param.data = init"
\* is the saved tensor itself; a parameter of any other name is left alone.
ResetData(name, store, data, mask) ==
    IF Prunable(name)
    THEN [addr |-> LiveAddr(name),
          value |-> [e \in Entries |-> mask[e] * store[SavedAddr(name)][e]]]
    ELSE IF HasBias(name) \/ HasWeight(name)
    THEN [addr |-> SavedAddr(name), value |-> store[SavedAddr(name)]]
    ELSE [addr |-> data[name], value |-> store[data[name]]]

\* reset_initialization(model, reinit=False)
ResetInitialization(store, data, mask) ==
    [store |-> [a \in DOMAIN store |->
                    IF \E name \in ParamNames : ResetData(name, store, data, mask).addr = a
                    THEN LET name == CHOOSE nm \in ParamNames :
                                        ResetData(nm, store, data, mask).addr = a
                         IN ResetData(name, store, data, mask).value
                    ELSE store[a]],
     data |-> [name \in ParamNames |-> ResetData(name, store, data, mask).addr],
     mask |-> mask]

\* A faulty variant of ResetEpochs: range(n_rounds) in place of range(1, n_rounds + 1)
ResetEpochs_FromRoundZero == {r * lt.round_length + 1 : r \in 0..(lt.rounds - 1)}

\* reset_epochs
ResetEpochs == {r * lt.round_length + 1 : r \in 1..lt.rounds}

\* post_backward: the gradient of an entry of a prunable tensor with
\* |w| < EPS is set to zero, so the optimizer leaves the entry as it is
Frozen(name, value) == Prunable(name) /\ Abs(value) = 0

\* The values an in-place update can leave in a parameter: any weights in
\* the entries that are not frozen; the single numbers move to 1
UpdatedValues(name, value) ==
    IF Prunable(name)
    THEN {w \in [Entries -> Weights] :
            \A e \in Entries : Frozen(name, value[e]) => w[e] = value[e]}
    ELSE {<<1>>}

\* torch in-place writes: new values at the addresses of the parameters
WriteInPlace(store, data, values) ==
    [a \in DOMAIN store |->
        IF \E name \in ParamNames : data[name] = a
        THEN values[CHOOSE name \in ParamNames : data[name] = a]
        ELSE store[a]]

\* The objects pre_epoch is handed: the optimizer, the scheduler, and the
\* scheduler inside a warmup scheduler (lr_scheduler.after_scheduler); and
\* the places of the three state dicts the pruner keeps
LiveObjects == {"optimizer", "lr_scheduler", "after_scheduler"}
CapturedObjects == {"initial_optim", "initial_scheduler", "initial_a_scheduler"}

\* What an object holds: its state dict's contents (one number stands for
\* the buffers and hyperparameters), its counters, and the warmup
\* scheduler's flag
Object(state, steps, last) ==
    [state |-> state, _step_count |-> steps, last_epoch |-> last, finished |-> FALSE]

\* A faulty variant of DeepCopy: the state dict itself, which holds the live object's tensors
DeepCopy_Alias(objs, from, to) ==
    [ref |-> from, objs |-> objs]

\* copy.deepcopy(x.state_dict()): a copy at a place of its own, as
\* [ref |-> that place, objs |-> the objects after the copy]
DeepCopy(objs, from, to) ==
    [ref |-> to, objs |-> [objs EXCEPT ![to] = objs[from]]]

\* Lines 50-55 of pre_epoch: the states are captured when the pruner holds
\* none yet
CaptureInitial(o) ==
    LET c1 == IF o.initial_optim_state_dict = "None"
              THEN DeepCopy(o.objs, "optimizer", "initial_optim")
              ELSE [ref |-> o.initial_optim_state_dict, objs |-> o.objs]
        c2 == IF o.initial_scheduler_state_dict = "None"
              THEN DeepCopy(c1.objs, "lr_scheduler", "initial_scheduler")
              ELSE [ref |-> o.initial_scheduler_state_dict, objs |-> c1.objs]
        c3 == IF o.initial_scheduler_state_dict = "None" /\ lt.warmup
              THEN DeepCopy(c2.objs, "after_scheduler", "initial_a_scheduler")
              ELSE [ref |-> o.initial_a_scheduler_state_dict, objs |-> c2.objs]
    IN [o EXCEPT !.objs = c3.objs,
                 !.initial_optim_state_dict = c1.ref,
                 !.initial_scheduler_state_dict = c2.ref,
                 !.initial_a_scheduler_state_dict = c3.ref]

\* Lines 66-76 of pre_epoch: the captured states are loaded (load_state_dict
\* of a deep copy) and the counters are set to 0.  The state dict of an
\* optimizer holds no counter; that of a scheduler holds all its fields.
LoadInitial(o) ==
    LET a == IF lt.warmup
             THEN [o.objs EXCEPT
                     !["lr_scheduler"].finished = FALSE,
                     !["after_scheduler"] =
                         [o.objs[o.initial_a_scheduler_state_dict] EXCEPT
                             !._step_count = 0, !.last_epoch = 0]]
             ELSE o.objs
        b == [a EXCEPT !["optimizer"].state = a[o.initial_optim_state_dict].state]
        c == [b EXCEPT !["lr_scheduler"] = b[o.initial_scheduler_state_dict]]
    IN [o EXCEPT !.objs = [c EXCEPT !["lr_scheduler"]._step_count = 0,
                                    !["optimizer"]._step_count = 0,
                                    !["lr_scheduler"].last_epoch = 0]]

\* "pruning and epoch in self.reset_epochs and epoch > 0"
ResetDue(ep) == lt.pruning /\ ep \in ResetEpochs /\ ep > 0

\* pre_epoch(model, train_mode, epoch, optimizer, lr_scheduler).  Without
\* pruning __init__ has set none of the pruner's attributes, and the read of
\* self.initial_optim_state_dict raises AttributeError.  events is the
\* record of what the call did, in order.
PreEpoch(store, data, mask, o, train_mode, ep) ==
    IF ~lt.pruning
    THEN [raised |-> TRUE, store |-> store, data |-> data, mask |-> mask,
          opt |-> [o EXCEPT !.call = [epoch |-> ep, train_mode |-> train_mode],
                            !.events = <<"AttributeError">>]]
    ELSE LET captured == CaptureInitial(o)
             pruned == PruneByPercentile(store, data, mask, lt.percent_per_round)
             reset == ResetInitialization(pruned.store, pruned.data, pruned.mask)
         IN IF ResetDue(ep)
            THEN [raised |-> FALSE, store |-> reset.store, data |-> reset.data,
                  mask |-> reset.mask,
                  opt |-> [LoadInitial(captured) EXCEPT
                             !.call = [epoch |-> ep, train_mode |-> train_mode],
                             !.events = <<"prune_by_percentile", "reset_initialization",
                                          "load_state_dict">>]]
            ELSE [raised |-> FALSE, store |-> store, data |-> data, mask |-> mask,
                  opt |-> [captured EXCEPT
                             !.call = [epoch |-> ep, train_mode |-> train_mode],
                             !.events = <<>>]]

\* optimizer.step()
OptimizerStep(objs) ==
    [objs EXCEPT !["optimizer"].state = @ + 1,
                 !["optimizer"]._step_count = @ + 1]

\* scheduler.step() of early_stopping after an evaluation.  A warmup
\* scheduler passes the step on to after_scheduler once its warmup, taken as
\* one step long, is finished.
SchedulerStep(objs) ==
    LET stepped == [objs EXCEPT !["lr_scheduler"].state = @ + 1,
                                !["lr_scheduler"]._step_count = @ + 1,
                                !["lr_scheduler"].last_epoch = @ + 1]
    IN IF ~lt.warmup THEN stepped
       ELSE IF objs["lr_scheduler"].finished
       THEN [stepped EXCEPT !["after_scheduler"].state = @ + 1,
                            !["after_scheduler"]._step_count = @ + 1,
                            !["after_scheduler"].last_epoch = @ + 1]
       ELSE [stepped EXCEPT !["lr_scheduler"].finished = TRUE]

\* The optimizer and the schedulers as the trainer builds them (a torch
\* scheduler steps once at construction); the pruner holds no state yet
NewOptim ==
    [objs |-> [a \in LiveObjects \cup CapturedObjects |->
                 IF a = "optimizer" THEN Object(0, 0, 0)
                 ELSE IF a \in LiveObjects THEN Object(0, 1, 0)
                 ELSE Object(-1, 0, 0)],
     initial_optim_state_dict |-> "None",
     initial_scheduler_state_dict |-> "None",
     initial_a_scheduler_state_dict |-> "None",
     call |-> [epoch |-> -1, train_mode |-> FALSE],
     events |-> <<>>,
     calls |-> 0,
     first |-> [a \in LiveObjects |-> Object(-1, 0, 0)]]

\* The pruner after construction, in front of the first training epoch
InitPrunerWith(percents, prunings, warmups) ==
    /\ \E w \in [Entries -> Weights] :
        /\ lt \in [percent_per_round : percents, round_length : 1..MaxRoundLength,
                   rounds : 1..MaxRounds,
                   construction : {[name \in ParamNames |->
                                        IF Prunable(name) THEN w ELSE <<0>>]},
                   pruning : prunings, warmup : warmups]
    /\ lt_pc = "pre_epoch"
    /\ lt_epoch = 0
    /\ lt_store = [a \in {LiveAddr(name) : name \in ParamNames} \cup
                         {SavedAddr(name) : name \in ParamNames} |->
                      lt.construction[a[2]]]
    /\ lt_data = [name \in ParamNames |-> LiveAddr(name)]
    /\ lt_mask = [e \in Entries |-> 1]
    /\ lt_best = lt.construction
    /\ lt_opt = NewOptim
    /\ InitControllerIdle
    /\ InitLongCyclerIdle
    /\ InitTraversalsIdle
    /\ InitMainLoopIdle
    /\ InitResetIdle
    /\ InitPostBackwardIdle
    /\ InitSetupIdle
    /\ InitCheckpointIdle
    /\ InitSchedulerIdle
    /\ InitPruneIdle

\* The call's record: the number of calls so far and, at the first call,
\* the objects as they were handed in
Called(o, before) ==
    [o EXCEPT !.calls = IF before.calls < 2 THEN before.calls + 1 ELSE 2,
              !.first = IF before.calls = 0
                        THEN [a \in LiveObjects |-> before.objs[a]]
                        ELSE before.first]

\* pre_epoch(model, True, epoch, optimizer, lr_scheduler) at the beginning
\* of a training epoch, or after the last one (trainer.py 290): at a reset
\* epoch the mask is updated, the parameters are reset, and optimizer and
\* scheduler are set back
PrunerPreEpoch ==
    /\ lt_pc = "pre_epoch"
    /\ lt_epoch < MaxEpochs
    /\ lt_epoch' = lt_epoch + 1
    /\ LET after == PreEpoch(lt_store, lt_data, lt_mask, lt_opt, TRUE, lt_epoch + 1)
       IN /\ lt_store' = after.store
          /\ lt_data' = after.data
          /\ lt_mask' = after.mask
          /\ lt_opt' = Called(after.opt, lt_opt)
          /\ lt_pc' = IF after.raised THEN "raised" ELSE "train"
    /\ UNCHANGED <<lt, lt_best, nonLtVars>>

\* The training steps of an epoch: backward, post_backward, optimizer.step()
PrunerTrainStep ==
    /\ lt_pc = "train"
    /\ \E w \in UpdatedValues("core.weight", lt_store[lt_data["core.weight"]]) :
        lt_store' = WriteInPlace(lt_store, lt_data,
                        [name \in ParamNames |->
                            IF Prunable(name) THEN w
                            ELSE CHOOSE v \in UpdatedValues(name, lt_store[lt_data[name]]) : TRUE])
    /\ lt_opt' = [lt_opt EXCEPT !.objs = OptimizerStep(@)]
    /\ lt_pc' = "eval"
    /\ UNCHANGED <<lt, lt_epoch, lt_data, lt_mask, lt_best, nonLtVars>>

\* The evaluation of early_stopping after the epoch: the validation pass
\* calls pre_epoch with epoch 0 (trainer.py 111-127), the scheduler is
\* stepped, and a new best record makes best_state_dict = copy_state(model)
PrunerEvaluate ==
    /\ lt_pc = "eval"
    /\ LET after == PreEpoch(lt_store, lt_data, lt_mask, lt_opt, FALSE, 0)
       IN /\ lt_store' = after.store
          /\ lt_data' = after.data
          /\ lt_mask' = after.mask
          /\ lt_opt' = [Called(after.opt, lt_opt) EXCEPT !.objs = SchedulerStep(@)]
          /\ \E better \in BOOLEAN :
                lt_best' = IF better THEN LiveValues(after.store, after.data) ELSE lt_best
    /\ lt_pc' = "pre_epoch"
    /\ UNCHANGED <<lt, lt_epoch, nonLtVars>>

\* decay_lr / finalize of early_stopping with restore_best:
\* model.load_state_dict(best_state_dict) copies into the live parameters
PrunerRestore ==
    /\ lt_pc = "pre_epoch"
    /\ lt_epoch > 0
    /\ lt_store' = WriteInPlace(lt_store, lt_data, lt_best)
    /\ UNCHANGED <<lt, lt_pc, lt_epoch, lt_data, lt_mask, lt_best, lt_opt, nonLtVars>>

\* config.lottery_ticket with or without pruning, without lr_warmup
InitPruner == InitPrunerWith(Percents, BOOLEAN, {FALSE})

\* Pruning with and without lr_warmup, half of the weights pruned per round
InitPrunerWarmup == InitPrunerWith({50}, {TRUE}, BOOLEAN)

NextPruner ==
    \/ PrunerPreEpoch
    \/ PrunerTrainStep
    \/ PrunerEvaluate
    \/ PrunerRestore

SpecPruner == InitPruner /\ [][NextPruner]_vars

SpecPrunerWarmup == InitPrunerWarmup /\ [][NextPruner]_vars

(***************************************************************************)
(* reset_initialization(model) called directly, any number of times, on a  *)
(* pruner in any state construction, training and pruning can leave: the   *)
(* live values and the mask are arbitrary, the saved initial state holds   *)
(* the values of construction.  Between two calls the model may be trained *)
(* in place.  rs_log records the values of the live parameters before the  *)
(* first call, after each call and after each training step.               *)
(***************************************************************************)
MaxCalls == 3

\* An entry of the log: what was done, and model.state_dict() afterwards
Logged(op, store, data) == [op |-> op, values |-> LiveValues(store, data)]

InitReset ==
    /\ \E w \in [Entries -> Weights] :
        lt = [percent_per_round |-> 50, round_length |-> 1, rounds |-> 1,
              construction |-> [name \in ParamNames |->
                                    IF Prunable(name) THEN w ELSE <<0>>],
              pruning |-> TRUE, warmup |-> FALSE]
    /\ lt_pc = "reset"
    /\ lt_epoch = 0
    /\ \E w \in [Entries -> Weights], s \in Scalars :
        lt_store = [a \in {LiveAddr(name) : name \in ParamNames} \cup
                          {SavedAddr(name) : name \in ParamNames} |->
                       IF a[1] = "saved" THEN lt.construction[a[2]]
                       ELSE IF Prunable(a[2]) THEN w ELSE s]
    /\ lt_data = [name \in ParamNames |-> LiveAddr(name)]
    /\ lt_mask \in [Entries -> {0, 1}]
    /\ lt_best = lt.construction
    /\ lt_opt = <<>>
    /\ rs_log = <<Logged("init", lt_store, lt_data)>>
    /\ InitPostBackwardIdle
    /\ InitSetupIdle
    /\ InitCheckpointIdle
    /\ InitSchedulerIdle
    /\ InitPruneIdle
    /\ InitControllerIdle
    /\ InitLongCyclerIdle
    /\ InitTraversalsIdle
    /\ InitMainLoopIdle

\* self.reset_initialization(model, False)
ResetCall ==
    /\ lt_pc = "reset"
    /\ Len(rs_log) <= MaxCalls
    /\ LET reset == ResetInitialization(lt_store, lt_data, lt_mask)
       IN /\ lt_store' = reset.store
          /\ lt_data' = reset.data
          /\ lt_mask' = reset.mask
          /\ rs_log' = Append(rs_log, Logged("reset", reset.store, reset.data))
    /\ UNCHANGED <<lt, lt_pc, lt_epoch, lt_best, lt_opt, nonRsVars>>

\* A training step between two calls: backward, post_backward,
\* optimizer.step()
ResetTrainStep ==
    /\ lt_pc = "reset"
    /\ Len(rs_log) <= MaxCalls
    /\ rs_log[Len(rs_log)].op = "reset"
    /\ \E w \in UpdatedValues("core.weight", lt_store[lt_data["core.weight"]]) :
        LET store == WriteInPlace(lt_store, lt_data,
                        [name \in ParamNames |->
                            IF Prunable(name) THEN w
                            ELSE CHOOSE v \in UpdatedValues(name, lt_store[lt_data[name]]) : TRUE])
        IN /\ lt_store' = store
           /\ rs_log' = Append(rs_log, Logged("train", store, lt_data))
    /\ UNCHANGED <<lt, lt_pc, lt_epoch, lt_data, lt_mask, lt_best, lt_opt, nonRsVars>>

NextReset ==
    \/ ResetCall
    \/ ResetTrainStep

SpecReset == InitReset /\ [][NextReset]_vars

(***************************************************************************)
(* post_backward of LotteryTicketPruning inside the training step of a     *)
(* batch: backward, post_backward, optimizer.step(), zero_grad.  A weight  *)
(* is a whole number of halves of 1e-6, so that magnitudes below, at and   *)
(* above EPS are told apart; a gradient entry is -1, 0 or 1, and the       *)
(* optimizer moves a weight by its gradient.                               *)
(***************************************************************************)
MaxMagnitude == 3
MaxSteps == 2

\* EPS = 1e-6, in halves of 1e-6
EPS == 2

Magnitudes == (0 - MaxMagnitude)..MaxMagnitude

\* The shape of a parameter: the entries of the prunable tensor, one entry
\* for every other parameter
EntriesOf(name) == IF Prunable(name) THEN Entries ELSE {1}

GradValues(name) == IF Prunable(name) THEN {-1, 0, 1} ELSE {-1, 1}

\* A faulty variant of MaskedGrad: a weight of magnitude EPS is frozen too
MaskedGrad_AtThreshold(name, tensor, grad_tensor) ==
    IF Prunable(name)
    THEN [e \in DOMAIN grad_tensor |-> IF Abs(tensor[e]) <= EPS THEN 0 ELSE grad_tensor[e]]
    ELSE grad_tensor

\* The body of the loop of post_backward for one parameter:
\* torch.where(tensor < EPS, torch.zeros_like(grad_tensor), grad_tensor)
\* for a prunable one
MaskedGrad(name, tensor, grad_tensor) ==
    IF HasWeight(name) /\ ~HasReadoutName(name)
    THEN [e \in DOMAIN grad_tensor |-> IF Abs(tensor[e]) < EPS THEN 0 ELSE grad_tensor[e]]
    ELSE grad_tensor

\* The pruner's mask is all ones (make_empty_mask), or what a reset event
\* has left: an entry with mask 0 is zero (reset_initialization, line 156)
InitPostBackward ==
    /\ \E w \in [Entries -> Magnitudes], r \in {0, 1, MaxMagnitude},
          mask \in [Entries -> {0, 1}] :
        /\ \A e \in Entries : mask[e] = 0 => w[e] = 0
        /\ pb = [pc |-> "backward",
              mask |-> mask,
              w |-> [name \in ParamNames |->
                        IF Prunable(name) THEN w
                        ELSE IF HasReadoutName(name) THEN <<r>> ELSE <<0>>],
              grad |-> [name \in ParamNames |-> [e \in EntriesOf(name) |-> 0]],
              before |-> [name \in ParamNames |-> [e \in EntriesOf(name) |-> 0]],
              steps |-> 0]
    /\ InitControllerIdle
    /\ InitLongCyclerIdle
    /\ InitTraversalsIdle
    /\ InitMainLoopIdle
    /\ InitPrunerIdle
    /\ InitResetIdle
    /\ InitSetupIdle
    /\ InitCheckpointIdle
    /\ InitSchedulerIdle
    /\ InitPruneIdle

\* loss.backward(): every parameter gets a gradient
PostBackwardBackward ==
    /\ pb.pc = "backward"
    /\ pb.steps < MaxSteps
    /\ \E g \in [Entries -> GradValues("core.weight")], o \in GradValues("core.bias") :
        pb' = [pb EXCEPT !.pc = "post_backward",
                         !.grad = [name \in ParamNames |->
                                      IF Prunable(name) THEN g ELSE <<o>>]]
    /\ UNCHANGED nonPbVars

\* post_backward(model)
PostBackward ==
    /\ pb.pc = "post_backward"
    /\ pb' = [pb EXCEPT !.pc = "step",
                        !.before = pb.grad,
                        !.grad = [name \in ParamNames |->
                                     MaskedGrad(name, pb.w[name], pb.grad[name])]]
    /\ UNCHANGED nonPbVars

\* optimizer.step() and optimizer.zero_grad()
PostBackwardOptimizerStep ==
    /\ pb.pc = "step"
    /\ LET w == [name \in ParamNames |->
                    [e \in EntriesOf(name) |-> pb.w[name][e] - pb.grad[name][e]]]
       IN /\ \A name \in ParamNames : \A e \in EntriesOf(name) :
                Abs(w[name][e]) <= MaxMagnitude + 1
          /\ pb' = [pb EXCEPT !.pc = "backward",
                              !.w = w,
                              !.grad = [name \in ParamNames |->
                                           [e \in EntriesOf(name) |-> 0]],
                              !.steps = pb.steps + 1]
    /\ UNCHANGED nonPbVars

NextPostBackward ==
    \/ PostBackwardBackward
    \/ PostBackward
    \/ PostBackwardOptimizerStep

SpecPostBackward == InitPostBackward /\ [][NextPostBackward]_vars

(***************************************************************************)
(* The set-up of the learning-rate schedule in the two trainers: the       *)
(* function trainer() of bias_transfer/trainer/trainer.py and the class    *)
(* Trainer of nntransfer/trainer/trainer.py, followed by the run of        *)
(* early_stopping with interval 1.  A scheduler object is written as its   *)
(* class and whether a warmup scheduler is wrapped around it; "None" is    *)
(* Python's None.                                                          *)
(***************************************************************************)
MaxWarmup == 1
MaxSetupEpochs == 2

TrainerKinds == {"bias_transfer", "nntransfer"}

Scheduler(base, warmup) == [base |-> base, warmup |-> warmup]

NoScheduler == Scheduler("None", FALSE)

\* The base scheduler trainer() of bias_transfer builds (lines 158-177)
BaseBiasTransfer(cfg) ==
    IF cfg.scheduler = "adaptive"
    THEN IF cfg.mtl THEN Scheduler("StepLR", FALSE)
         ELSE Scheduler("ReduceLROnPlateau", FALSE)
    ELSE IF cfg.scheduler = "manual" THEN Scheduler("MultiStepLR", FALSE)
    ELSE NoScheduler

\* trainer() of bias_transfer, lines 179-188: the outcome of the set-up of
\* the schedule
PrepareBiasTransfer(cfg) ==
    LET lr_scheduler == BaseBiasTransfer(cfg)
    IN IF cfg.lr_warmup # 0
       THEN IF lr_scheduler = NoScheduler
            THEN [raised |-> TRUE, lr_scheduler |-> lr_scheduler]
            ELSE [raised |-> FALSE, lr_scheduler |-> Scheduler(lr_scheduler.base, TRUE)]
       ELSE [raised |-> FALSE, lr_scheduler |-> lr_scheduler]

\* SchedulerWrapper.__init__: the two schedulers are stored as they are
SchedulerWrapper(lr_scheduler) == Scheduler(lr_scheduler.base, TRUE)

\* Trainer.prepare_lr_schedule of nntransfer
PrepareLrSchedule(cfg) ==
    LET base == IF cfg.scheduler = "adaptive" THEN Scheduler("ReduceLROnPlateau", FALSE)
                ELSE IF cfg.scheduler = "manual" THEN Scheduler("MultiStepLR", FALSE)
                ELSE NoScheduler
    IN [raised |-> FALSE,
        lr_scheduler |-> IF cfg.lr_warmup # 0 THEN SchedulerWrapper(base) ELSE base]

Prepare(cfg) ==
    IF cfg.trainer = "bias_transfer" THEN PrepareBiasTransfer(cfg)
    ELSE PrepareLrSchedule(cfg)

\* early_stopping, after an evaluation: whether scheduler.step is called
\* (lines 121-123 and 147-151)
StepsScheduler(cfg, lr_scheduler, first) ==
    /\ lr_scheduler # NoScheduler
    /\ \/ cfg.scheduler = "adaptive" /\ ~cfg.mtl
       \/ cfg.scheduler = "manual" /\ ~first

InitSetup ==
    /\ su \in [trainer : TrainerKinds, scheduler : {"none", "adaptive", "manual"},
               mtl : BOOLEAN, lr_warmup : 0..MaxWarmup, max_iter : 1..MaxSetupEpochs,
               pc : {"setup"}, lr_scheduler : {Scheduler("unset", FALSE)},
               evaluations : {0}, epochs : {0}, steps : {0}]
    /\ su.trainer = "nntransfer" => ~su.mtl
    /\ InitControllerIdle
    /\ InitLongCyclerIdle
    /\ InitTraversalsIdle
    /\ InitMainLoopIdle
    /\ InitPrunerIdle
    /\ InitResetIdle
    /\ InitPostBackwardIdle
    /\ InitCheckpointIdle
    /\ InitSchedulerIdle
    /\ InitPruneIdle

\* The set-up of the schedule: an exception, or a scheduler for
\* early_stopping
SetupSchedule ==
    /\ su.pc = "setup"
    /\ LET made == Prepare(su)
       IN su' = [su EXCEPT !.pc = IF made.raised THEN "raised" ELSE "ready",
                           !.lr_scheduler = IF made.raised THEN su.lr_scheduler
                                            ELSE made.lr_scheduler]
    /\ UNCHANGED nonSuVars

\* The first resumption of early_stopping: the evaluation before the first
\* epoch and, under plain adaptive scheduling, a step of the scheduler
SetupFirstEvaluation ==
    /\ su.pc = "ready"
    /\ su' = [su EXCEPT !.pc = "loop",
                        !.evaluations = 1,
                        !.steps = IF StepsScheduler(su, su.lr_scheduler, TRUE)
                                  THEN 1 ELSE 0]
    /\ UNCHANGED nonSuVars

\* A training epoch, and the evaluation and the step of the scheduler that
\* follow it
SetupEpoch ==
    /\ su.pc = "loop"
    /\ su.epochs < su.max_iter
    /\ su' = [su EXCEPT !.epochs = su.epochs + 1,
                        !.evaluations = su.evaluations + 1,
                        !.steps = IF StepsScheduler(su, su.lr_scheduler, FALSE)
                                  THEN su.steps + 1 ELSE su.steps]
    /\ UNCHANGED nonSuVars

\* The epoch budget is used up: the trainer returns
SetupDone ==
    /\ su.pc = "loop"
    /\ su.epochs = su.max_iter
    /\ su' = [su EXCEPT !.pc = "done"]
    /\ UNCHANGED nonSuVars

NextSetup ==
    \/ SetupSchedule
    \/ SetupFirstEvaluation
    \/ SetupEpoch
    \/ SetupDone

SpecSetup == InitSetup /\ [][NextSetup]_vars

(***************************************************************************)
(* trainer() of bias_transfer/trainer/trainer.py around early_stopping:    *)
(* the body of "for epoch, dev_eval in epoch_iterator" calls               *)
(* save_best_model and then trains, and after the loop the model is        *)
(* evaluated and save_best_model is called once more.  The controller is   *)
(* the one of Spec, with a single decay stage.                             *)
(***************************************************************************)

\* best_eval = {k: {"eval": -100000, "loss": 100000} for k in val_keys}
InitialBestEval == -100000

CheckpointConfigs == {c \in Configs : c.lr_decay_steps = 1 /\ c.restore_best}

\* test_current_obj of save_best_model: obj[task]['eval'] > best_obj[task]['eval']
\* for every task
SaveTest(dev_eval, best_eval) ==
    \A t \in DOMAIN dev_eval : Less(best_eval[t], dev_eval[t].eval)

\* save_checkpoint(model, optimizer, dev_eval, epoch - 1, ...): the file
\* holds the parameters of the model as they are now, the record and the
\* epoch
SaveCheckpoint(model, dev_eval, ep) ==
    [model |-> model, dev_eval |-> dev_eval, epoch |-> ep - 1]

\* save_best_model(model, optimizer, dev_eval, epoch, best_eval, ...): the
\* trainer's record afterwards
SaveBestModel(trainer, model, dev_eval, ep) ==
    IF SaveTest(dev_eval, trainer.best_eval)
    THEN [trainer EXCEPT !.best_eval = [t \in DOMAIN dev_eval |-> dev_eval[t].eval],
                         !.last = "written",
                         !.writes = trainer.writes + 1,
                         !.checkpoint = SaveCheckpoint(model, dev_eval, ep)]
    ELSE [trainer EXCEPT !.last = "skipped"]

InitCheckpoint ==
    /\ config \in CheckpointConfigs
    /\ pc = "init"
    /\ epoch = config.start
    /\ repeat = 0
    /\ patience_counter = -1
    /\ i = 0
    /\ current_objective = NoRecord
    /\ best_objective = NoRecord
    /\ best_state_dict = SnapAddr
    /\ heap = [a \in Addrs |-> config.start]
    /\ training = TRUE
    /\ training_status = FALSE
    /\ exit_line = 0
    /\ retval = "running"
    /\ fails = 0
    /\ ck = [pc |-> "loop", best_eval |-> [t \in Tasks |-> Fin(InitialBestEval)],
             epoch |-> 0, last |-> "none", writes |-> 0,
             checkpoint |-> SaveCheckpoint(0, NoRecord, 0)]
    /\ InitLongCyclerIdle
    /\ InitTraversalsIdle
    /\ InitMainLoopIdle
    /\ InitPrunerIdle
    /\ InitResetIdle
    /\ InitPostBackwardIdle
    /\ InitSetupIdle
    /\ InitSchedulerIdle
    /\ InitPruneIdle

\* The loop body up to main_loop, for a yielded epoch: "if epoch > 1:
\* best_epoch, best_eval = save_best_model(...)"
TrainerSaveBest ==
    /\ pc = "yielded"
    /\ ck.pc = "loop"
    /\ ck' = IF epoch > 1
             THEN [SaveBestModel(ck, heap[ModelAddr], current_objective, epoch)
                     EXCEPT !.pc = "main_loop", !.epoch = epoch]
             ELSE [ck EXCEPT !.pc = "main_loop", !.epoch = epoch, !.last = "none"]
    /\ UNCHANGED nonCkVars

\* The rest of the loop body: main_loop(...), and the generator is resumed
TrainerMainLoop ==
    /\ ck.pc = "main_loop"
    /\ heap' = [heap EXCEPT ![ModelAddr] = epoch]
    /\ training' = TRUE
    /\ pc' = "for"
    /\ ck' = [ck EXCEPT !.pc = "loop"]
    /\ UNCHANGED <<config, epoch, repeat, patience_counter, i, current_objective,
                   best_objective, best_state_dict, training_status, exit_line,
                   retval, fails, lcVars, trVars, mlVars, ltVars, rsVars, pbVars,
                   suVars, scVars, prVars>>

\* After the loop: the evaluation of the final model and, when an epoch was
\* yielded, save_best_model
TrainerFinalSave ==
    /\ pc = "done"
    /\ ck.pc = "loop"
    /\ \E dev_eval \in Records :
        ck' = IF ck.epoch > 0
              THEN [SaveBestModel(ck, heap[ModelAddr], dev_eval, ck.epoch + 1)
                      EXCEPT !.pc = "finalized"]
              ELSE [ck EXCEPT !.pc = "finalized", !.last = "none"]
    /\ UNCHANGED nonCkVars

NextCheckpoint ==
    \/ Start
    \/ EvalRaises
    \/ StageHead
    \/ WhileHead
    \/ ForStep
    \/ TrainerSaveBest
    \/ TrainerMainLoop
    \/ Evaluate
    \/ StageEnd
    \/ Finalize
    \/ TrainerFinalSave

SpecCheckpoint == InitCheckpoint /\ [][NextCheckpoint]_vars

(***************************************************************************)
(* prune_by_percentile on a model with two prunable tensors, core.weight   *)
(* of two entries and features.weight of one, a bias and the weight of the *)
(* readout, with and without global_pruning.  Between two calls the        *)
(* weights of an earlier state dict may be loaded, which can leave a       *)
(* non-zero weight where the mask is 0.                                    *)
(***************************************************************************)
MaxPruneWeight == 3
MaxPrunes == 2

\* model.named_parameters(), in order
PruneParams == <<"core.weight", "core.bias", "features.weight", "readout.weight">>

PruneNames == {PruneParams[k] : k \in DOMAIN PruneParams}

\* The shape of a parameter
PruneShape(name) == IF name = "core.weight" THEN Entries ELSE {1}

PruneWeights == (-1)..MaxPruneWeight

\* The entries of the tensors in names whose mask entry is not zero:
\* param.data[torch.nonzero(self.mask[step], as_tuple=True)]
AliveIn(names, mask) ==
    {x \in names \X Entries : x[2] \in PruneShape(x[1]) /\ mask[x[1]][x[2]] # 0}

\* np.percentile(torch.abs(alive), percent), times 100, of the entries in
\* alive: linear interpolation between the two order statistics around
\* position percent/100 * (n - 1); NaN, written -1, of no entry
PercentileOfAlive(w, alive, percent) ==
    LET n == Cardinality(alive)
        Mag(x) == Abs(w[x[1]][x[2]])
        Kth(k) == CHOOSE v \in {Mag(x) : x \in alive} :
                    /\ Cardinality({x \in alive : Mag(x) < v}) <= k
                    /\ k < Cardinality({x \in alive : Mag(x) <= v})
        lo == (percent * (n - 1)) \div 100
        rem == (percent * (n - 1)) % 100
        hi == IF lo + 1 < n THEN lo + 1 ELSE lo
    IN IF n = 0 THEN -1
       ELSE 100 * Kth(lo) + rem * (Kth(hi) - Kth(lo))

\* A faulty variant of PercentileValue: the percentile of the tensor itself
\* also under global_pruning
PercentileValue_PerTensor(name, w, mask, percent, global_pruning) ==
    PercentileOfAlive(w, AliveIn({name}, mask), percent)

\* percentile_value when the tensor name is pruned: of all prunable tensors
\* together under global_pruning (lines 90-102), of the tensor otherwise
\* (lines 109-115)
PercentileValue(name, w, mask, percent, global_pruning) ==
    IF global_pruning
    THEN PercentileOfAlive(w, AliveIn({nm \in PruneNames : Prunable(nm)}, mask), percent)
    ELSE PercentileOfAlive(w, AliveIn({name}, mask), percent)

\* A faulty variant of PruneModel: an entry at the percentile is pruned too
PruneModel_AtThreshold(w, mask, percent, global_pruning) ==
    LET value100(name) == PercentileValue(name, w, mask, percent, global_pruning)
        new_mask == [name \in DOMAIN mask |->
                        [e \in PruneShape(name) |->
                            IF value100(name) >= 0 /\ 100 * Abs(w[name][e]) <= value100(name)
                            THEN 0 ELSE mask[name][e]]]
    IN [w |-> [name \in PruneNames |->
                 IF Prunable(name)
                 THEN [e \in PruneShape(name) |-> w[name][e] * new_mask[name][e]]
                 ELSE w[name]],
        mask |-> new_mask]

\* prune_by_percentile(model, percent): new_mask of every prunable tensor,
\* and the tensor times new_mask; a comparison with NaN is false
PruneModel(w, mask, percent, global_pruning) ==
    LET value100(name) == PercentileValue(name, w, mask, percent, global_pruning)
        new_mask == [name \in DOMAIN mask |->
                        [e \in PruneShape(name) |->
                            IF value100(name) >= 0 /\ 100 * Abs(w[name][e]) < value100(name)
                            THEN 0 ELSE mask[name][e]]]
    IN [w |-> [name \in PruneNames |->
                 IF Prunable(name)
                 THEN [e \in PruneShape(name) |-> w[name][e] * new_mask[name][e]]
                 ELSE w[name]],
        mask |-> new_mask]

\* make_empty_mask(model): ones, for the prunable tensors
MakeEmptyMask ==
    [name \in {nm \in PruneNames : Prunable(nm)} |-> [e \in PruneShape(name) |-> 1]]

InitPrune ==
    /\ \E c \in [Entries -> PruneWeights], f \in PruneWeights, p \in Percents,
          g \in BOOLEAN :
        LET w == [name \in PruneNames |->
                    IF name = "core.weight" THEN c
                    ELSE IF name = "features.weight" THEN <<f>> ELSE <<1>>]
        IN pr = [pc |-> "ready", global_pruning |-> g, percent |-> p, w |-> w,
                 mask |-> MakeEmptyMask,
                 before |-> [w |-> w, mask |-> MakeEmptyMask],
                 saved |-> w, calls |-> 0]
    /\ InitControllerIdle
    /\ InitLongCyclerIdle
    /\ InitTraversalsIdle
    /\ InitMainLoopIdle
    /\ InitPrunerIdle
    /\ InitResetIdle
    /\ InitPostBackwardIdle
    /\ InitSetupIdle
    /\ InitCheckpointIdle
    /\ InitSchedulerIdle

\* self.prune_by_percentile(model, self.percent_per_round)
PruneCall ==
    /\ pr.pc = "ready"
    /\ pr.calls < MaxPrunes
    /\ LET pruned == PruneModel(pr.w, pr.mask, pr.percent, pr.global_pruning)
       IN pr' = [pr EXCEPT !.pc = "pruned",
                           !.before = [w |-> pr.w, mask |-> pr.mask],
                           !.w = pruned.w,
                           !.mask = pruned.mask,
                           !.calls = pr.calls + 1]
    /\ UNCHANGED nonPrVars

\* Until the next call: the weights stay, or model.load_state_dict of the
\* state dict saved at construction writes them
PruneLoad ==
    /\ pr.pc = "pruned"
    /\ \E loaded \in BOOLEAN :
        pr' = [pr EXCEPT !.pc = "ready", !.w = IF loaded THEN pr.saved ELSE pr.w]
    /\ UNCHANGED nonPrVars

NextPrune ==
    \/ PruneCall
    \/ PruneLoad

SpecPrune == InitPrune /\ [][NextPrune]_vars

(***************************************************************************)
(* Properties of the early-stopping controller.                            *)
(***************************************************************************)

\* The values of the live parameters and of the best snapshot
LiveParams == heap[ModelAddr]
BestParams == heap[best_state_dict]

\* Some value of the record is NaN or infinite
HasNonFinite(obj) ==
    \E t \in Tasks : \E v \in {obj[t].eval, obj[t].loss} : v[1] \in {"nan", "inf"}

\* A post-interval evaluation that returned normally
EvaluationStep == pc = "eval" /\ pc' = "while"

\* C1: after each post-interval evaluation, the best record and the best
\* snapshot are replaced by the new record and the live parameters, and
\* patience_counter is set to -1, if and only if the new record beats the best
\* one in every task by strictly more than the tolerance; otherwise best
\* record and snapshot stay as they are and patience_counter grows by 1.
C1_BestReplacedIffAllTasksImproved ==
    [][EvaluationStep =>
        IF BeatsBest(current_objective', best_objective, config)
        THEN /\ best_objective' = current_objective'
             /\ BestParams' = LiveParams
             /\ patience_counter' = -1
        ELSE /\ best_objective' = best_objective
             /\ BestParams' = BestParams
             /\ patience_counter' = patience_counter + 1]_vars

\* C1 witness: an evaluation in which one task improved and the other did
\* not was counted as a failure.
C1_Witness_MixedTasksRejected ==
    /\ pc = "while"
    /\ patience_counter = 0
    /\ config.maximize
    /\ \E t \in Tasks, u \in Tasks :
        /\ Less(AddFin(best_objective[t].eval, config.tolerance),
                current_objective[t].eval)
        /\ Less(current_objective[u].eval, best_objective[u].eval)

\* C2: a decay stage goes on after an evaluation exactly while fewer than
\* patience + 1 evaluations in a row failed to improve and epoch budget is
\* left; so patience ends a stage exactly at the (patience + 1)-th failure in
\* a row, never earlier.
C2_PatienceEndsStageAfterPPlusOneFailures ==
    /\ [][pc = "while" =>
            (pc' = "for" <=>
                (fails < config.patience + 1 /\ epoch < config.max_iter))]_vars
    /\ [](fails <= config.patience + 1)

\* C2 witness: a stage ended by patience, with budget left, after two
\* failures in a row.
C2_Witness_StageEndedByPatience ==
    /\ pc = "stage_end"
    /\ epoch < config.max_iter
    /\ config.patience = 1
    /\ fails = 2

\* C3: once an evaluation returned a record with a non-finite value, the
\* controller yields no further epoch and evaluates no more, and when it
\* ends the best snapshot is in the live model if and only if restore_best.
C3_NonFiniteRecordStopsTheRun ==
    [][(pc # "init" /\ HasNonFinite(current_objective)) =>
        /\ pc' \notin {"yielded", "eval", "raised"}
        /\ (pc # "done" /\ pc' = "done") =>
              LiveParams' = IF config.restore_best THEN BestParams ELSE LiveParams]_vars

\* C3 witness: divergence ended the run in a later decay stage, with an
\* interval of more than one epoch.
C3_Witness_DivergedInLaterStage ==
    /\ pc = "done"
    /\ exit_line = 141
    /\ repeat > 0
    /\ config.interval > 1
    /\ HasNonFinite(current_objective)

\* C4: when the controller terminates, with restore_best the live parameters
\* equal the best snapshot, and without it finalization leaves the live
\* parameters as they were.
C4_FinalizeRestoresBestIffRestoreBest ==
    [][(pc # "done" /\ pc' = "done") =>
        /\ BestParams' = BestParams
        /\ IF config.restore_best
           THEN LiveParams' = BestParams'
           ELSE LiveParams' = LiveParams]_vars

\* C4 witness: the run ended after the stage loop and the restore replaced
\* parameters trained later than the snapshot.
C4_Witness_RestoredOlderSnapshot ==
    /\ pc = "done"
    /\ exit_line = 178
    /\ config.restore_best
    /\ epoch > config.start
    /\ LiveParams < epoch

\* C5: the best snapshot's values change only at the initial evaluation and
\* at an improving evaluation; training steps and restores leave them.
C5_SnapshotIsValueCopy ==
    [][BestParams' # BestParams =>
        \/ pc = "init"
        \/ /\ EvaluationStep
           /\ BeatsBest(current_objective', best_objective, config)]_vars

\* C5 witness: the live model was trained on after a between-stage restore
\* and differs from the snapshot.
C5_Witness_TrainedAfterRestore ==
    /\ pc = "for"
    /\ repeat > 0
    /\ config.restore_best
    /\ config.lr_decay_steps > 1
    /\ LiveParams # BestParams

\* A bound on the steps the controller and its caller can still take.
Rank ==
    LET W == 2 * config.interval + 3
        left == IF epoch < config.max_iter THEN config.max_iter - epoch ELSE 0
        stages == config.lr_decay_steps - repeat
        local ==
            CASE pc = "init" -> 2 * config.interval + 7
              [] pc = "stage" -> 4
              [] pc = "while" -> 3
              [] pc = "for" -> IF i = 0 THEN 2 ELSE 5 + 2 * (config.interval - i)
              [] pc = "yielded" -> 6 + 2 * (config.interval - i)
              [] pc = "eval" -> 4
              [] pc = "stage_end" -> 2
              [] pc = "finalize" -> 1
              [] OTHER -> 0
    IN W * left + 3 * stages + local

Terminated == pc \in {"done", "raised"}

\* C6: every step of the controller or of its caller lowers a bound that
\* never drops below zero, and a step is possible until the controller has
\* terminated, so it terminates after finitely many yielded epochs; it runs
\* at most lr_decay_steps stages, each starting with patience_counter = -1.
C6_TerminatesWithinDecayStages ==
    /\ [][Rank' < Rank]_vars
    /\ [](Rank >= 0)
    /\ [](Terminated \/ ENABLED Next)
    /\ [](repeat <= config.lr_decay_steps)
    /\ [][(pc = "stage" /\ pc' = "while") =>
            (repeat < config.lr_decay_steps /\ patience_counter' = -1)]_vars

\* C6 witness: the controller terminated after running every decay stage.
C6_Witness_AllStagesRun ==
    /\ pc = "done"
    /\ exit_line = 178
    /\ repeat = config.lr_decay_steps
    /\ config.lr_decay_steps = MaxDecaySteps
    /\ epoch > config.start

\* C7: the value with which the controller ends after a divergence differs
\* from the value with which it ends after its stage loop.
C7_DivergenceHasItsOwnOutcome ==
    (pc = "done" /\ exit_line = 141) => retval # "None"

\* C8: when the evaluation closure raises, the model is left in the mode it
\* was in before the evaluation.
C8_ModeRestoredWhenEvaluationRaises ==
    [][pc' = "raised" => training' = training]_vars

(***************************************************************************)
(* Properties of LongCycler.                                               *)
(***************************************************************************)

\* The largest length among the sources
LargestLength == CHOOSE m \in 1..MaxLen :
    /\ \E k \in 1..Len(loaders) : loaders[k] = m
    /\ \A k \in 1..Len(loaders) : loaders[k] <= m

\* The batches yielded for key k, in the order they were yielded
RECURSIVE BatchesOf(_, _)
BatchesOf(pairs, k) ==
    IF pairs = <<>> THEN <<>>
    ELSE IF pairs[1][1] = k
         THEN <<pairs[1][2]>> \o BatchesOf(Tail(pairs), k)
         ELSE BatchesOf(Tail(pairs), k)

\* C9: a complete traversal yields K * M pairs, M the largest length, which
\* is len(cycler); every key appears M times; and a longest source is
\* traversed exactly once, in order.
C9_TraversalYieldsKTimesMPairs ==
    lc_pc = "exhausted" =>
        /\ Len(out) = Len(loaders) * LargestLength
        /\ Len(out) = LongCyclerLen
        /\ \A k \in 1..Len(loaders) :
            /\ Len(BatchesOf(out, k)) = LargestLength
            /\ loaders[k] = LargestLength =>
                 BatchesOf(out, k) = [j \in 1..LargestLength |-> j - 1]

\* C9 witness: the traversal over sources of lengths 3, 7, 2 is complete
\* and yielded 21 pairs.
C9_Witness_Lengths372 ==
    /\ lc_pc = "exhausted"
    /\ loaders = <<3, 7, 2>>
    /\ Len(out) = 21

\* C10: the i-th pair yielded (from 0) has the key at position i mod K and
\* the batch numbered floor(i / K) mod len(source) of that source.
C10_RoundRobinOrder ==
    \A n \in 1..Len(out) :
        LET k == ((n - 1) % Len(loaders)) + 1
        IN out[n] = <<k, ((n - 1) \div Len(loaders)) % loaders[k]>>

\* C10 witness: over lengths 3, 7, 2 the third source, exhausted twice, is
\* at its first batch again in round 4.
C10_Witness_ShortSourceRestarts ==
    /\ loaders = <<3, 7, 2>>
    /\ Len(out) >= 15
    /\ out[15] = <<3, 0>>
    /\ out[12] = <<3, 1>>

(***************************************************************************)
(* MTL_Cycler and the traversals of a cycler.                              *)
(***************************************************************************)

\* The n-th pair (from 1) of a traversal of the MTL_Cycler: slot 0 of every
\* group of ratio + 1 is the next primary batch; the o-th non-primary slot
\* (from 0) has the key at position o mod K and that source's batch
\* floor(o / K) mod len(source).  Without non-primary sources there is no
\* pair for a non-primary slot.
ExpectedMtlPair(n) ==
    LET per == mtl.ratio + 1
        b == (n - 1) \div per
        slot == (n - 1) % per
        K == Len(mtl.other_loaders)
        o == b * mtl.ratio + slot - 1
        k == (o % K) + 1
    IN IF slot = 0 THEN <<0, b>>
       ELSE IF K = 0 THEN <<-1, -1>>
       ELSE <<k, (o \div K) % mtl.other_loaders[k]>>

\* What a traversal of the MTL_Cycler has yielded is the beginning of the
\* expected sequence, it did not end in an error, and when it is over it
\* yielded len(main) * (ratio + 1) pairs, which is len(cycler).
MtlTraversalAsExpected(t) ==
    /\ frames[t].pc # "raised"
    /\ \A n \in 1..Len(seen[t]) : seen[t][n] = ExpectedMtlPair(n)
    /\ frames[t].pc = "exhausted" =>
        /\ Len(seen[t]) = mtl.main_loader * (mtl.ratio + 1)
        /\ Len(seen[t]) = mtl.num_batches

C12_EmptySourceFailsBeforeAnyPair ==
    \A t \in Traversals :
        /\ seen[t] = <<>>
        /\ frames[t].pc # "exhausted"

\* The n-th pair (from 1) of a traversal of the cycler
ExpectedPair(n) ==
    IF which = "LongCycler"
    THEN LET k == ((n - 1) % Len(loaders)) + 1
         IN <<k, ((n - 1) \div Len(loaders)) % loaders[k]>>
    ELSE ExpectedMtlPair(n)

\* The number of pairs of a complete traversal of the cycler
ExpectedLength ==
    IF which = "LongCycler" THEN Len(loaders) * LargestLength
    ELSE mtl.main_loader * (mtl.ratio + 1)

\* C13: every traversal, whether it runs alone, after another one or
\* interleaved with another one, yields the sequence of a single traversal
\* from its first pair on and is complete when it is over; and a step of one
\* traversal changes neither the cursors nor the output of the other.
C13_TraversalsAreFreshAndIndependent ==
    /\ [](\A t \in Traversals :
            /\ \A n \in 1..Len(seen[t]) : seen[t][n] = ExpectedPair(n)
            /\ frames[t].pc = "exhausted" => Len(seen[t]) = ExpectedLength)
    /\ [][\A t, u \in Traversals :
            (t # u /\ (seen'[t] # seen[t] \/ frames'[t] # frames[t])) =>
                (frames'[u] = frames[u] /\ seen'[u] = seen[u])]_vars

\* C13 witness: two traversals of a LongCycler over lengths 3 and 2 are under
\* way at different positions, the short source having started over in one
\* of them only.
C13_Witness_TwoTraversalsUnderWay ==
    /\ which = "LongCycler"
    /\ loaders = <<3, 2>>
    /\ frames["a"].pc = "iterating"
    /\ frames["b"].pc = "iterating"
    /\ Len(seen["a"]) = 6
    /\ seen["a"][6] = <<2, 0>>
    /\ Len(seen["b"]) = 2

(***************************************************************************)
(* The hooks of main_loop.                                                 *)
(***************************************************************************)

\* The calls of one kind made in the current batch, in the order made
CallsOf(op) == SelectSeq(ml_log, LAMBDA c : c.op = op)

\* The value that the hooks of the first k registered modules have returned
\* one after the other
ChainedThrough(k) == [j \in 1..k |-> j]

\* C14: in a batch, the k-th pre_forward call is the k-th registered module's
\* and is handed the (model, inputs) pair returned by the module before it;
\* the forward pass is made with the pair of the last module; post_forward
\* is chained in the same order; and shared_memory is empty for the first
\* module of the batch and holds what the modules before wrote in this batch.
C14_HooksChainedInRegistrationOrder ==
    LET pre == CallsOf("pre_forward")
        fwd == CallsOf("forward")
        post == CallsOf("post_forward")
    IN /\ \A k \in 1..Len(pre) :
            /\ pre[k].m = k
            /\ pre[k].got = <<ChainedThrough(k - 1), ChainedThrough(k - 1), 1..(k - 1)>>
       /\ Len(fwd) <= 1
       /\ \A f \in 1..Len(fwd) :
            /\ Len(pre) = ml.modules
            /\ fwd[f].got = <<ChainedThrough(ml.modules), ChainedThrough(ml.modules)>>
       /\ \A k \in 1..Len(post) :
            /\ Len(fwd) = 1
            /\ post[k].m = k
            /\ post[k].got = <<ChainedThrough(k - 1), 1..ml.modules>>

\* C14 witness: the second batch with two modules, after its post_forward
\* hooks; the first module found shared_memory empty.
C14_Witness_SecondBatchChained ==
    /\ ml.modules = 2
    /\ ml_loc.batch_idx = 1
    /\ ml_pc = At("check")
    /\ Len(ml_log) = 5
    /\ ml_log[1].got[3] = {}
    /\ ml_loc.post = <<1, 2>>

HookOps == {"pre_epoch", "pre_forward", "post_forward", "post_backward",
            "post_optimizer", "post_epoch"}

\* A hook call that raised is the last call of main_loop
RaisedHookIsLast(n) ==
    /\ n = Len(ml_log)
    /\ ml_pc = At("raised")

\* C15 (as amended): a hook that raises ends main_loop at once, so that no
\* later hook runs; backward is not executed for the batch when the hook is
\* a pre_forward or post_forward hook, and the optimizer step is not
\* executed when it is a pre_forward, post_forward or post_backward hook.
C15_RaisingHookEndsMainLoop ==
    /\ [](\A n \in 1..Len(ml_log) :
            (ml_log[n].raised /\ ml_log[n].op \in HookOps) =>
                /\ RaisedHookIsLast(n)
                /\ ml_log[n].op \in {"pre_forward", "post_forward"} =>
                     CallsOf("backward") = <<>>
                /\ ml_log[n].op \in {"pre_forward", "post_forward", "post_backward"} =>
                     /\ CallsOf("optimizer") = <<>>
                     /\ ml_model.params = ml_loc.before.params
                     /\ ml_model.optimizer = ml_loc.before.optimizer)
    /\ [][ml_pc # At("raised")]_vars

\* C15 witness: with two modules in training, the post_forward hook of the
\* first module raised in the second batch.
C15_Witness_PostForwardRaised ==
    /\ ml.modules = 2
    /\ ml.train_mode
    /\ ml_loc.batch_idx = 1
    /\ ml_pc = At("raised")
    /\ ml_log[Len(ml_log)] = Call("post_forward", 1, TRUE, <<<<>>, {1, 2}>>)

\* C15 (as stated): whichever hook raises during a batch, no later hook
\* runs and neither backward nor the optimizer step is executed for the
\* batch.
C15_NoBackwardNoStepWhateverHookRaises ==
    \A n \in 1..Len(ml_log) :
        (ml_log[n].raised /\ ml_log[n].op \in HookOps) =>
            /\ RaisedHookIsLast(n)
            /\ CallsOf("backward") = <<>>
            /\ CallsOf("optimizer") = <<>>

\* C16: backward and the optimizer step only ever run on finite outputs and
\* a loss that is not NaN; and when the check after post_forward raises,
\* main_loop is over with the parameters and the optimizer state of the
\* beginning of the batch, backward not having run.
C16_InvalidOutputsRaiseBeforeBackward ==
    /\ \A n \in 1..Len(ml_log) :
        ml_log[n].op \in {"backward", "optimizer"} =>
            /\ ml_log[n].got[1] = "finite"
            /\ ml_log[n].got[2] # "nan"
    /\ \A n \in 1..Len(ml_log) :
        (ml_log[n].op = "check" /\
            (ml_log[n].got[1] # "finite" \/ ml_log[n].got[Len(ml_log[n].got)] = "nan")) =>
            /\ n = Len(ml_log)
            /\ ml_pc = At("raised")
            /\ CallsOf("backward") = <<>>
            /\ ml_model.params = ml_loc.before.params
            /\ ml_model.optimizer = ml_loc.before.optimizer

\* C16 witness: in training, after a first batch whose step was taken, the
\* loss of the second batch is NaN and main_loop has raised.
C16_Witness_NanLossInSecondBatch ==
    /\ ml.train_mode
    /\ ml_loc.batch_idx = 1
    /\ ml_model.params = 1
    /\ ml_pc = At("raised")
    /\ ml_log[Len(ml_log)] = Call("check", 0, TRUE, <<"finite", "nan">>)

(***************************************************************************)
(* The lottery-ticket pruner.                                              *)
(***************************************************************************)

\* The prunable tensor of the live model
LiveWeight == lt_store[lt_data["core.weight"]]

\* The reset of a reset epoch has just been made
JustReset == lt_pc = "train" /\ lt_epoch \in {r * lt.round_length + 1 : r \in 1..lt.rounds}

\* C17: in every step, a mask entry that is 0 stays 0, so that the number of
\* pruned entries does not decrease.
C17_MaskOnlyLosesEntries ==
    [][/\ \A e \in DOMAIN lt_mask : lt_mask[e] = 0 => lt_mask'[e] = 0
       /\ Cardinality({e \in DOMAIN lt_mask : lt_mask[e] = 0})
            <= Cardinality({e \in DOMAIN lt_mask' : lt_mask'[e] = 0})]_vars

\* C17 witness: the second prune event has been made with an entry pruned
\* by the first one, both entries having had the same weight at construction.
C17_Witness_SecondPrune ==
    /\ lt.rounds = 2
    /\ lt.round_length = 1
    /\ lt_epoch = 3
    /\ lt_pc = "train"
    /\ lt_mask = <<0, 1>>
    /\ lt.construction["core.weight"] = <<1, 1>>

\* C18: in every state, every entry of the prunable tensor whose mask entry
\* is 0 is zero in the live model.
C18_MaskedWeightsAreZero ==
    \A e \in DOMAIN lt_mask : lt_mask[e] = 0 => LiveWeight[e] = 0

\* C19: after every reset, the prunable tensor is the mask times its value
\* at construction, and every other parameter has its value at construction.
C19_ResetRestoresConstructionValues ==
    JustReset =>
        /\ \A e \in Entries :
            LiveWeight[e] = lt_mask[e] * lt.construction["core.weight"][e]
        /\ \A name \in ParamNames \ {"core.weight"} :
            lt_store[lt_data[name]] = lt.construction[name]

\* C20: the saved initial state always holds the values of construction.
C20_SavedInitialStateNeverChanges ==
    lt_pc # "idle" =>
        \A name \in ParamNames : lt_store[<<"saved", name>>] = lt.construction[name]

(***************************************************************************)
(* reset_initialization called twice.                                      *)
(***************************************************************************)

\* C21: of two calls of reset_initialization in succession, with nothing
\* done to the model, the mask or the saved state in between, the second
\* leaves every parameter with the value the first one left.
C21_ResetTwiceSameValues ==
    \A k \in 1..(Len(rs_log) - 1) :
        rs_log[k].op = "reset" /\ rs_log[k + 1].op = "reset" =>
            \A name \in DOMAIN rs_log[k].values :
                rs_log[k + 1].values[name] = rs_log[k].values[name]

\* C21 witness: two calls in succession, the first of which changed the
\* prunable tensor (one entry masked, one restored) and the bias.
C21_Witness_SecondCallAfterEffectiveFirst ==
    /\ Len(rs_log) = 3
    /\ rs_log[1].op = "init" /\ rs_log[2].op = "reset" /\ rs_log[3].op = "reset"
    /\ lt_mask = <<0, 1>>
    /\ rs_log[1].values["core.weight"] = <<1, 0>>
    /\ rs_log[2].values["core.weight"] = <<0, -1>>
    /\ rs_log[1].values["core.bias"] = <<1>>
    /\ rs_log[2].values["core.bias"] = <<0>>

(***************************************************************************)
(* The gradients after post_backward.                                      *)
(***************************************************************************)

\* The gradient entries post_backward has to set to zero: those of a tensor
\* whose name holds "weight" and is not the readout's, where the weight is
\* less than 1e-6 (two halves) in magnitude
ToBeZeroed(name, e) ==
    /\ name = "core.weight"
    /\ pb.w[name][e] \in {-1, 0, 1}

\* C22: after post_backward, every gradient entry of a prunable weight of
\* magnitude below 1e-6 is zero, and every other gradient entry is what it
\* was before the call.
C22_PostBackwardZeroesOnlyTinyPrunable ==
    pb.pc = "step" =>
        \A name \in DOMAIN pb.grad : \A e \in DOMAIN pb.grad[name] :
            pb.grad[name][e] = IF ToBeZeroed(name, e) THEN 0 ELSE pb.before[name][e]

\* C22 witness: post_backward has run in the second training step on a
\* prunable tensor with one weight below 1e-6 and one of exactly 1e-6, both
\* with a non-zero gradient, and a readout weight of zero.
C22_Witness_BelowAndAtThreshold ==
    /\ pb.pc = "step"
    /\ pb.steps = 1
    /\ pb.w["core.weight"] = <<1, -2>>
    /\ pb.w["readout.weight"] = <<0>>
    /\ pb.before["core.weight"] = <<1, 1>>
    /\ pb.grad["core.weight"] = <<0, 1>>
    /\ pb.grad["readout.weight"] = <<-1>>

(***************************************************************************)
(* The set-up of the schedule.                                             *)
(***************************************************************************)

\* C23: in both trainers, once the set-up of the schedule is over with
\* warmup requested and no base scheduler configured, the set-up has raised,
\* and no evaluation and no epoch has run.
C23_WarmupWithoutSchedulerRejectedAtSetup ==
    (su.pc \notin {"idle", "setup"} /\ su.lr_warmup > 0 /\ su.scheduler = "none") =>
        /\ su.pc = "raised"
        /\ su.evaluations = 0
        /\ su.epochs = 0

(***************************************************************************)
(* The checkpoints of trainer().                                           *)
(***************************************************************************)

\* C24: when a checkpoint has been written for a yielded epoch, the latest
\* evaluation was counted as an improvement by the controller (with a single
\* decay stage, patience_counter is -1 exactly after the initial evaluation
\* and after an evaluation that replaced the best record).
C24_CheckpointOnlyAfterImprovement ==
    (ck.pc = "main_loop" /\ ck.last = "written") => patience_counter = -1

(***************************************************************************)
(* The epochs and the evaluations of the controller.                       *)
(***************************************************************************)

\* The generator yields in this step
YieldStep == pc # "yielded" /\ pc' = "yielded"

\* C25: the generator starts at epoch = start; every yield gives the epoch
\* after the one before and the record of the latest evaluation, which only
\* an evaluation changes; the epoch changes nowhere else but where the
\* generator returns for a non-finite record; and a post-interval evaluation
\* begins exactly when `interval` epochs have been yielded since the one
\* before (or since the stage's loop was entered), never earlier.
C25_YieldsEveryEpochEvaluatesEveryInterval ==
    /\ [](pc = "init" => epoch = config.start)
    /\ [][/\ YieldStep => epoch' = epoch + 1 /\ i' = i + 1
          /\ ~YieldStep /\ pc' # "done" => epoch' = epoch
          /\ pc \notin {"init", "eval"} => current_objective' = current_objective
          /\ pc # "eval" /\ pc' = "eval" => i = config.interval
          /\ pc = "for" /\ i = config.interval => pc' = "eval"
          /\ pc = "for" /\ i < config.interval => pc' \in {"yielded", "done"}
          /\ pc = "yielded" => pc' = "for" /\ i' = i]_vars

\* C25 witness: with interval 2 and start 0 the third epoch is yielded, with
\* the record of the evaluation made after epoch 2, which did not become the
\* best record.
C25_Witness_ThirdEpochAfterOneEvaluation ==
    /\ pc = "yielded"
    /\ config.interval = 2
    /\ config.start = 0
    /\ epoch = 3
    /\ i = 1
    /\ current_objective # best_objective

(***************************************************************************)
(* The between-stage action and the scheduler.                             *)
(***************************************************************************)

\* C26: the step that ends a decay stage restores the live model or
\* advances the scheduler only when another decay stage follows and epoch
\* budget remains, and the scheduler's latest call is a between-stage one
\* only when fewer than lr_decay_steps such calls have been made.
C26_BetweenStageActionOnlyBeforeAnotherStage ==
    /\ [](sch.last.at = "stage_end" => sch.steps <= config.lr_decay_steps - 1)
    /\ [][pc = "stage_end" /\ (heap' # heap \/ sch' # sch) =>
            /\ repeat + 1 < config.lr_decay_steps
            /\ epoch < config.max_iter]_vars

\* C27: every evaluation that returns normally, the initial one and the
\* post-interval ones, leaves model.training as it was when the evaluation
\* began.
C27_EvaluationLeavesModeAsBefore ==
    [][(pc \in {"init", "eval"} /\ pc' \in {"stage", "while"}) =>
            training' = training]_vars

\* A post-interval evaluation returns in this step
PostIntervalEvaluation == pc = "eval" /\ pc' = "while"

\* The scheduler is advanced once in this step, with the value of the first
\* task of the new record under adaptive scheduling and without a value
\* under manual scheduling
AdvancedOnceWithNewRecord ==
    /\ sch'.steps = sch.steps + 1
    /\ sch'.last.at = "eval"
    /\ sch'.last.arg =
        IF sch.scheduler = "adaptive"
        THEN IF config.maximize THEN current_objective'["img_classification"].eval
             ELSE current_objective'["img_classification"].loss
        ELSE <<"none", 0>>

\* C28: with a scheduler configured, every post-interval evaluation advances
\* it once: with the new record's value under adaptive scheduling, without a
\* value under manual scheduling; except that under adaptive scheduling of a
\* multi-task run the evaluation leaves the scheduler alone.
C28_EvaluationAdvancesSchedulerUnlessAdaptiveMtl ==
    [][PostIntervalEvaluation /\ sch.scheduler # "none" =>
            IF sch.scheduler = "adaptive" /\ sch.mtl
            THEN sch' = sch
            ELSE AdvancedOnceWithNewRecord]_vars

\* C28 witness: under adaptive scheduling of a single-task run that
\* minimises the loss, the second post-interval evaluation has advanced the
\* scheduler, for the third time, with a loss of 1.
C28_Witness_SecondEvaluationStepped ==
    /\ pc = "while"
    /\ sch.scheduler = "adaptive" /\ ~sch.mtl
    /\ ~config.maximize
    /\ config.interval = 1
    /\ epoch = 2
    /\ sch.steps = 3
    /\ sch.last = [at |-> "eval", arg |-> <<"fin", 1>>]
    /\ current_objective["img_classification"].loss = <<"fin", 1>>

\* C28 as stated: with a scheduler configured, every post-interval
\* evaluation advances it once, whatever the mode.
C28_EveryEvaluationAdvancesScheduler ==
    [][PostIntervalEvaluation /\ sch.scheduler # "none" =>
            AdvancedOnceWithNewRecord]_vars

(***************************************************************************)
(* The order of the phases of main_loop.                                   *)
(***************************************************************************)

\* The calls made so far in the batch (before the first batch: in the
\* epoch), as <<operation, module>>, the checks of outputs and loss left out
PhasesSoFar ==
    LET calls == SelectSeq(ml_log, LAMBDA c : c.op # "check")
    IN [k \in 1..Len(calls) |-> <<calls[k].op, calls[k].m>>]

\* The hook op of every module, in the order of registration
HooksOf(op) == [k \in 1..ml.modules |-> <<op, k>>]

\* The phases of a batch of training, with or without backward and with or
\* without the step of the optimizer
PhasesOfBatch(with_backward, with_step) ==
    HooksOf("pre_forward") \o <<<<"forward", 0>>>> \o HooksOf("post_forward")
    \o (IF with_backward THEN <<<<"backward", 0>>>> ELSE <<>>)
    \o HooksOf("post_backward")
    \o (IF with_step THEN <<<<"optimizer", 0>>>> \o HooksOf("post_optimizer") ELSE <<>>)

IsPrefix(a, b) == Len(a) <= Len(b) /\ \A k \in 1..Len(a) : a[k] = b[k]

\* In Training mode: before the first batch the calls are the pre_epoch
\* hooks, once each; in a batch they are a prefix of the given phases
\* followed by the post_epoch hooks, all of the phases when the batch is
\* over, with the gradient zeroed after a step; post_epoch is called in the
\* last batch only, and once for every module when main_loop has returned.
PhasesInOrder(phases, stepped) ==
    ml.train_mode /\ ml_pc.at # "idle" =>
        IF ml_loc.batch_idx = -1
        THEN /\ IsPrefix(PhasesSoFar, HooksOf("pre_epoch"))
             /\ ml_pc.at \in {"zero_grad", "batch"} => PhasesSoFar = HooksOf("pre_epoch")
        ELSE /\ IsPrefix(PhasesSoFar, phases \o HooksOf("post_epoch"))
             /\ ml_pc.at = "batch" =>
                    /\ PhasesSoFar = phases
                    /\ stepped => ml_model.grad = 0
             /\ ml_pc.at = "zero_grad" => Len(PhasesSoFar) = Len(phases) /\ stepped
             /\ Len(PhasesSoFar) > Len(phases) => ml_loc.batch_idx = ml.batches - 1
             /\ ml_pc.at = "returned" => PhasesSoFar = phases \o HooksOf("post_epoch")

SortedAlive(names) ==
    LET alive == {x \in names \X Entries :
                    /\ x[1] \in DOMAIN pr.before.mask
                    /\ x[2] \in DOMAIN pr.before.mask[x[1]]
                    /\ pr.before.mask[x[1]][x[2]] = 1}
        n == Cardinality(alive)
        mag(x) == IF pr.before.w[x[1]][x[2]] < 0 THEN 0 - pr.before.w[x[1]][x[2]]
                  ELSE pr.before.w[x[1]][x[2]]
    IN CHOOSE s \in [1..n -> 0..(MaxPruneWeight + 1)] :
        /\ \A k \in 1..(n - 1) : s[k] <= s[k + 1]
        /\ \A v \in 0..(MaxPruneWeight + 1) :
            Cardinality({k \in 1..n : s[k] = v}) = Cardinality({x \in alive : mag(x) = v})

\* The percentile, times 100, of an ascending sequence: the value at
\* position percent/100 * (n - 1), interpolated linearly between neighbours
Threshold100(sorted, percent) ==
    LET n == Len(sorted)
        pos100 == percent * (n - 1)
        below == sorted[(pos100 \div 100) + 1]
        above == IF (pos100 \div 100) + 2 <= n THEN sorted[(pos100 \div 100) + 2] ELSE below
    IN 100 * below + (pos100 % 100) * (above - below)

\* An entry is below the threshold of the prune event: there is a weight
\* alive to take the percentile of, and the entry's magnitude is strictly
\* less than the percentile over all prunable tensors (global) or over its
\* own tensor
BelowThreshold(name, e) ==
    LET names == IF pr.global_pruning THEN {"core.weight", "features.weight"} ELSE {name}
        sorted == SortedAlive(names)
        w == pr.before.w[name][e]
    IN /\ Len(sorted) > 0
       /\ 100 * (IF w < 0 THEN 0 - w ELSE w) < Threshold100(sorted, pr.percent)

\* C30: after a prune event, a mask entry of a prunable tensor is 0 exactly
\* when it was 0 before or its weight was below the threshold; the weights
\* below the threshold are zero and the weights still alive are unchanged;
\* the bias and the weight of the readout are unchanged and have no mask.
C30_PruneMasksExactlyBelowThreshold ==
    pr.pc = "pruned" =>
        /\ DOMAIN pr.mask = {"core.weight", "features.weight"}
        /\ \A name \in DOMAIN pr.mask : \A e \in DOMAIN pr.mask[name] :
            /\ pr.mask[name][e] =
                IF BelowThreshold(name, e) THEN 0 ELSE pr.before.mask[name][e]
            /\ BelowThreshold(name, e) => pr.w[name][e] = 0
            /\ pr.mask[name][e] = 1 => pr.w[name][e] = pr.before.w[name][e]
        /\ \A name \in {"core.bias", "readout.weight"} : pr.w[name] = pr.before.w[name]

\* C30 witness: under global_pruning with percent 50 and weights (3, 2) and
\* (-1), the single entry of features.weight has been pruned, which its own
\* percentile would have kept, and both entries of core.weight are alive.
C30_Witness_GlobalPrunesSmallTensor ==
    /\ pr.pc = "pruned"
    /\ pr.global_pruning
    /\ pr.percent = 50
    /\ pr.calls = 1
    /\ pr.before.w["core.weight"] = <<3, 2>>
    /\ pr.before.w["features.weight"] = <<-1>>
    /\ pr.mask["features.weight"] = <<0>>
    /\ pr.mask["core.weight"] = <<1, 1>>
    /\ pr.w["features.weight"] = <<0>>

(***************************************************************************)
(* The epoch budget and non-finite records.                                *)
(***************************************************************************)

\* C33: no yielded epoch number is greater than max_iter.
C33_NoYieldBeyondMaxIter ==
    pc = "yielded" => epoch <= config.max_iter

\* C34: a post-interval evaluation replaces the best record, or writes the
\* best snapshot, only when every value of the new record is finite.
C34_BestReplacedOnlyByFiniteRecord ==
    [][(EvaluationStep /\ (best_objective' # best_objective \/ heap' # heap))
            => ~HasNonFinite(current_objective')]_vars

(***************************************************************************)
(* Gradient accumulation in main_loop.                                     *)
(***************************************************************************)

\* C39: when a training main_loop has returned, no gradient is left that
\* was accumulated by a backward pass and not applied by an optimizer step.
C39_EveryGradientAppliedBeforeEpochEnds ==
    (ml_pc.at = "returned" /\ ml.train_mode) => ml_model.grad = 0

(***************************************************************************)
(* The prune-and-reset events of the pruner.                               *)
(***************************************************************************)

\* pre_epoch is called in this step: by a training epoch (or after the last
\* one) with the epoch of the loop, or by a validation pass with epoch 0
TrainingCall == lt_pc = "pre_epoch" /\ lt_pc' \in {"train", "raised"}
ValidationCall == lt_pc = "eval" /\ lt_pc' = "pre_epoch"

\* The epochs before which the pruner resets
ExpectedResetEpochs == {e \in 1..(MaxRounds * MaxRoundLength + 1) :
                            \E r \in 1..lt.rounds : e = r * lt.round_length + 1}

\* The entry is alive and its magnitude is below the percentile of the
\* magnitudes of the alive entries.  Of at most two values the percentile
\* at 100 is the larger one and the one at 50 is their mean; both sides are
\* doubled.
PrunedByEvent(e) ==
    LET alive == {x \in Entries : lt_mask[x] = 1}
        mag(x) == IF LiveWeight[x] < 0 THEN 0 - LiveWeight[x] ELSE LiveWeight[x]
        largest == CHOOSE v \in {mag(x) : x \in alive} : \A x \in alive : mag(x) <= v
        smallest == CHOOSE v \in {mag(x) : x \in alive} : \A x \in alive : v <= mag(x)
    IN /\ lt_mask[e] = 1
       /\ IF lt.percent_per_round = 100
          THEN mag(e) < largest
          ELSE 2 * mag(e) < smallest + largest

\* The live optimizer and schedulers
LiveOptim == [a \in {"optimizer", "lr_scheduler", "after_scheduler"} |-> lt_opt.objs[a]]

\* C31: with pruning enabled, a call of pre_epoch is a prune-and-reset event
\* exactly when it is a training call whose epoch is r * round_length + 1 for
\* some r in 1..rounds; a validation call never is.  In an event the mask is
\* updated from the trained weights, then the weights are the saved ones
\* times the new mask, then the counters of optimizer and scheduler are 0,
\* and training follows.  Any other call leaves mask, parameters, optimizer
\* and schedulers as they are.
C31_PruneAndResetExactlyAtResetEpochs ==
    [][lt.pruning =>
        /\ TrainingCall =>
            /\ lt_opt'.call = [epoch |-> lt_epoch + 1, train_mode |-> TRUE]
            /\ (lt_opt'.events # <<>>) <=> (lt_epoch + 1 \in ExpectedResetEpochs)
            /\ lt_pc' = "train"
        /\ ValidationCall =>
            /\ lt_opt'.call = [epoch |-> 0, train_mode |-> FALSE]
            /\ lt_opt'.events = <<>>
            /\ lt_mask' = lt_mask
            /\ LiveValues(lt_store', lt_data') = LiveValues(lt_store, lt_data)
        /\ (TrainingCall /\ lt_opt'.events = <<>>) =>
            /\ lt_mask' = lt_mask
            /\ LiveValues(lt_store', lt_data') = LiveValues(lt_store, lt_data)
            /\ LiveOptim' = LiveOptim
        /\ (TrainingCall /\ lt_opt'.events # <<>>) =>
            /\ lt_opt'.events = <<"prune_by_percentile", "reset_initialization",
                                  "load_state_dict">>
            /\ \A e \in Entries :
                /\ lt_mask'[e] = IF PrunedByEvent(e) THEN 0 ELSE lt_mask[e]
                /\ LiveWeight'[e] =
                     lt_mask'[e] * lt_store'[<<"saved", "core.weight">>][e]
            /\ lt_opt'.objs["optimizer"]._step_count = 0
            /\ lt_opt'.objs["lr_scheduler"]._step_count = 0
            /\ lt_opt'.objs["lr_scheduler"].last_epoch = 0]_vars

\* C31 witness: with round_length 1 and rounds 2 the event before epoch 3
\* has been made, after the event before epoch 2 and a validation call; the
\* second entry is pruned and the first one is back at its saved value.
C31_Witness_SecondEventPrunes ==
    /\ lt.pruning
    /\ lt.rounds = 2
    /\ lt.round_length = 1
    /\ lt.percent_per_round = 50
    /\ lt.construction["core.weight"] = <<1, 1>>
    /\ lt_epoch = 3
    /\ lt_pc = "train"
    /\ lt_opt.call = [epoch |-> 3, train_mode |-> TRUE]
    /\ lt_opt.events # <<>>
    /\ lt_mask = <<1, 0>>
    /\ LiveWeight = <<1, 0>>

C36_PreEpochCompletesWithoutPruning ==
    ~lt.pruning => lt_pc # "raised"

(***************************************************************************)
(* post_backward and the mask.                                             *)
(***************************************************************************)

\* C37: after post_backward, the gradient entry of a prunable weight whose
\* mask entry is 1 is what it was before the call.
C37_GradientKeptWhereMaskIsOne ==
    pb.pc = "step" =>
        \A e \in DOMAIN pb.mask :
            pb.mask[e] = 1 => pb.grad["core.weight"][e] = pb.before["core.weight"][e]

(***************************************************************************)
(* The survivors of pruning.                                               *)
(***************************************************************************)

\* The mask keeps an entry equal to 1: in every prunable tensor, or, under
\* global_pruning, in one of them
HasSurvivor(mask, global_pruning) ==
    IF global_pruning
    THEN \E name \in DOMAIN mask : \E e \in DOMAIN mask[name] : mask[name][e] = 1
    ELSE \A name \in DOMAIN mask : \E e \in DOMAIN mask[name] : mask[name][e] = 1

\* C38: with a percentage below 100, after any number of prune events the
\* mask keeps a survivor, and so did the mask every prune event took its
\* percentile over.
C38_PruningLeavesASurvivor ==
    (pr.pc \in {"ready", "pruned"} /\ pr.percent < 100) =>
        /\ HasSurvivor(pr.mask, pr.global_pruning)
        /\ pr.pc = "pruned" => HasSurvivor(pr.before.mask, pr.global_pruning)

\* C38 witness: under global_pruning with percent 50 two prune events have
\* been made; the first emptied features.weight, the second pruned an entry
\* of core.weight, whose other entry survives.
C38_Witness_GlobalSecondPruneLeavesOne ==
    /\ pr.pc = "pruned"
    /\ pr.calls = 2
    /\ pr.global_pruning
    /\ pr.percent = 50
    /\ pr.before.mask["features.weight"] = <<0>>
    /\ pr.before.mask["core.weight"] = <<1, 1>>
    /\ pr.mask["core.weight"] = <<0, 1>>

(***************************************************************************)
(* What a checkpoint holds.                                                *)
(***************************************************************************)

\* The parameters the record in hand was obtained from.  A training epoch e
\* leaves the parameters at e, the evaluation follows the training of its
\* epoch, and i epochs have been yielded since.
EvaluatedParams == epoch - i

\* C35: when a checkpoint has been written for a yielded epoch, it holds the
\* record in hand and the parameters that record was obtained from; the
\* checkpoint written after the loop holds the final parameters.
C35_CheckpointHoldsEvaluatedModel ==
    /\ (ck.pc = "main_loop" /\ ck.last = "written") =>
            /\ ck.checkpoint.dev_eval = current_objective
            /\ ck.checkpoint.model = EvaluatedParams
    /\ (ck.pc = "finalized" /\ ck.last = "written") =>
            ck.checkpoint.model = LiveParams

=============================================================================
